---- MODULE Spec2Model ----
(***************************************************************************)
(* deploy-helper: a deployment driver that runs the ordered tasks of each  *)
(* deployment on each of its hosts, threading one mutable variable context *)
(* through template rendering, command execution and register capture.     *)
(*                                                                         *)
(* Strings are modelled as sequences of tokens.  A token is one character  *)
(* (" ", "\\", "\n") or one indivisible word; a template expression such   *)
(* as {{x}} is one token.                                                  *)
(*                                                                         *)
(* The command, when and debug steps exist twice in the sources: as        *)
(* private functions of src/main.rs working on (register_map, vars_map),   *)
(* and as src/modules/*.rs + src/utils.rs working on vars_map alone.  The  *)
(* variable impl says which of the two is linked into the driver.          *)
(***************************************************************************)
EXTENDS Integers, Sequences, FiniteSets, TLC

(***************************************************************************)
(* Bounds of the model.                                                    *)
(***************************************************************************)
MaxDeployments == 2
MaxHosts == 2
MaxTasks == 2

(***************************************************************************)
(* Option<T>: None is the empty sequence, Some(v) the one-element one.     *)
(***************************************************************************)
None == <<>>
Some(v) == <<v>>
IsSome(o) == o # <<>>
Unwrap(o) == o[1]

(***************************************************************************)
(* serde_json::Value.  A Register serialises to an object with the three   *)
(* fields stdout, stderr, rc.                                              *)
(***************************************************************************)
Str(s) == [t |-> "str", s |-> s]
Num(n) == [t |-> "num", n |-> n]
Null == [t |-> "null"]
Map(m) == [t |-> "map", m |-> m]
Register(stdout, stderr, rc) == [stdout |-> stdout, stderr |-> stderr, rc |-> rc]
to_value(reg) ==
    Map(("stdout" :> Str(reg.stdout)) @@ ("stderr" :> Str(reg.stderr)) @@ ("rc" :> Num(reg.rc)))

(***************************************************************************)
(* IndexMap<String, _> as a function on the set of its keys.               *)
(***************************************************************************)
EmptyMap == << >>
Insert(m, k, v) == [j \in (DOMAIN m) \cup {k} |-> IF j = k THEN v ELSE m[j]]
Remove(m, k) == [j \in (DOMAIN m) \ {k} |-> m[j]]

(***************************************************************************)
(* Token-level string helpers.                                             *)
(***************************************************************************)
IsWhitespace(c) == c \in {" ", "\t"}

RECURSIVE trim_start(_)
trim_start(s) ==
    IF s # <<>> /\ IsWhitespace(Head(s)) THEN trim_start(Tail(s)) ELSE s

RECURSIVE trim_end(_)
trim_end(s) ==
    IF s # <<>> /\ IsWhitespace(s[Len(s)]) THEN trim_end(SubSeq(s, 1, Len(s) - 1)) ELSE s

trim(s) == trim_end(trim_start(s))

ends_with(s, c) == s # <<>> /\ s[Len(s)] = c

RECURSIVE trim_end_matches(_, _)
trim_end_matches(s, c) ==
    IF ends_with(s, c) THEN trim_end_matches(SubSeq(s, 1, Len(s) - 1), c) ELSE s

\* The pieces of s between separators c ("a\n" has the pieces "a" and "").
RECURSIVE SplitOn(_, _, _)
SplitOn(s, c, cur) ==
    IF s = <<>> THEN <<cur>>
    ELSE IF Head(s) = c THEN <<cur>> \o SplitOn(Tail(s), c, <<>>)
    ELSE SplitOn(Tail(s), c, Append(cur, Head(s)))

\* str::lines(): the pieces between newlines, without a final empty piece.
lines(s) ==
    LET p == SplitOn(s, "\n", <<>>)
    IN  IF p[Len(p)] = <<>> THEN SubSeq(p, 1, Len(p) - 1) ELSE p

(***************************************************************************)
(* The template engine (minijinja, UndefinedBehavior::Strict, one filter   *)
(* from_json that returns its argument).  The engine is a library; it is   *)
(* modelled by its contract: a name absent from the context is undefined,  *)
(* and printing, testing, comparing or taking an attribute of an undefined *)
(* value is an UndefinedError.                                             *)
(***************************************************************************)
Bool(b) == [t |-> "bool", b |-> b]
Undefined == [t |-> "undefined"]

\* Expression tokens of the modelled templates: the variable path they read.
Paths ==
    ("{{x}}" :> <<"x">>) @@ ("{{y}}" :> <<"y">>) @@ ("{{item}}" :> <<"item">>) @@
    ("{{r.stdout}}" :> <<"r", "stdout">>) @@ ("{{r.rc}}" :> <<"r", "rc">>) @@
    ("{{x|from_json}}" :> <<"x">>) @@ ("{{y.k}}" :> <<"y", "k">>) @@
    ("x" :> <<"x">>) @@ ("y" :> <<"y">>) @@ ("item" :> <<"item">>) @@
    ("r.rc" :> <<"r", "rc">>)

\* Literals that may occur in a condition.
Literals ==
    ("'a'" :> Str(<<"a">>)) @@ ("'b'" :> Str(<<"b">>)) @@ ("1" :> Num(1)) @@
    ("0" :> Num(0)) @@ ("true" :> Bool(TRUE)) @@ ("false" :> Bool(FALSE))

\* The tokens that are {{ ... }} expressions; every other token is plain text.
Exprs ==
    {"{{x}}", "{{y}}", "{{item}}", "{{r.stdout}}", "{{r.rc}}", "{{x|from_json}}", "{{y.k}}"}
IsExpr(tok) == tok \in Exprs

\* Context lookup and attribute access.
lookup(path, context) ==
    LET base == IF path[1] \in DOMAIN context THEN context[path[1]] ELSE Undefined
    IN  IF Len(path) = 1 THEN [ok |-> TRUE, v |-> base]
        ELSE IF base = Undefined THEN [ok |-> FALSE, v |-> Undefined]
        ELSE IF base.t = "map" /\ path[2] \in DOMAIN base.m
             THEN [ok |-> TRUE, v |-> base.m[path[2]]]
        ELSE [ok |-> TRUE, v |-> Undefined]

\* The order in which the fields of an object are printed.
FieldOrder == <<"stdout", "stderr", "rc", "k">>

RECURSIVE value_text(_)
RECURSIVE map_text(_, _)
map_text(m, i) ==
    IF i > Len(FieldOrder) THEN <<>>
    ELSE (IF FieldOrder[i] \in DOMAIN m
          THEN <<FieldOrder[i], ":">> \o value_text(m[FieldOrder[i]]) \o <<",">>
          ELSE <<>>) \o map_text(m, i + 1)

\* The text an expression of the given value prints.
value_text(v) ==
    CASE v.t = "str" -> v.s
      [] v.t = "num" -> <<ToString(v.n)>>
      [] v.t = "bool" -> IF v.b THEN <<"true">> ELSE <<"false">>
      [] v.t = "null" -> <<"none">>
      [] v.t = "map" -> <<"{">> \o map_text(v.m, 1) \o <<"}">>

is_true(v) ==
    CASE v.t = "str" -> v.s # <<>>
      [] v.t = "num" -> v.n # 0
      [] v.t = "bool" -> v.b
      [] v.t = "null" -> FALSE
      [] v.t = "map" -> DOMAIN v.m # {}

Failed == [ok |-> FALSE, s |-> <<>>]

IndexOf(s, c) == CHOOSE i \in 1..Len(s) : s[i] = c /\ \A j \in 1..(i - 1) : s[j] # c

\* The filter from_json returns its argument.
from_json_filter(value) == value

\* An expression that applies from_json to a string literal: the tokens
\* between the two are the characters of the literal.
LiteralOpen == "{{'"
LiteralClose == "'|from_json}}"

\* Rendering of a template without blocks: text is copied, every expression
\* is replaced by the text of its value.
RECURSIVE render_text(_, _)
render_text(msg, context) ==
    IF msg = <<>> THEN [ok |-> TRUE, s |-> <<>>]
    ELSE IF Head(msg) = LiteralOpen
    THEN LET k == IndexOf(msg, LiteralClose)
             v == from_json_filter(Str(SubSeq(msg, 2, k - 1)))
             after == render_text(SubSeq(msg, k + 1, Len(msg)), context)
         IN  IF after.ok THEN [ok |-> TRUE, s |-> value_text(v) \o after.s] ELSE Failed
    ELSE LET rest == render_text(Tail(msg), context)
         IN  IF ~IsExpr(Head(msg))
             THEN IF rest.ok THEN [ok |-> TRUE, s |-> <<Head(msg)>> \o rest.s] ELSE Failed
             ELSE LET r == lookup(Paths[Head(msg)], context)
                  IN  IF r.ok /\ r.v # Undefined /\ rest.ok
                      THEN [ok |-> TRUE, s |-> value_text(r.v) \o rest.s]
                      ELSE Failed

term(tok, context) ==
    IF tok \in DOMAIN Literals THEN [ok |-> TRUE, v |-> Literals[tok]]
    ELSE IF tok \in DOMAIN Paths THEN lookup(Paths[tok], context)
    ELSE [ok |-> FALSE, v |-> Undefined]

\* The truth value of the expression of an {% if %} block.
eval_test(expr, context) ==
    IF Len(expr) = 1
    THEN LET a == term(expr[1], context)
         IN  IF a.ok /\ a.v # Undefined THEN [ok |-> TRUE, b |-> is_true(a.v)]
             ELSE [ok |-> FALSE, b |-> FALSE]
    ELSE IF Len(expr) = 3 /\ expr[2] = "=="
    THEN LET a == term(expr[1], context)
             c == term(expr[3], context)
         IN  IF a.ok /\ c.ok /\ a.v # Undefined /\ c.v # Undefined
             THEN [ok |-> TRUE, b |-> a.v = c.v]
             ELSE [ok |-> FALSE, b |-> FALSE]
    ELSE [ok |-> FALSE, b |-> FALSE]

\* template.render(&context): Ok(text) or an error.
render(msg, context) ==
    IF msg # <<>> /\ Head(msg) = "{% if"
    THEN LET i == IndexOf(msg, "%}")
             j == IndexOf(msg, "{% else %}")
             k == IndexOf(msg, "{% endif %}")
             test == eval_test(SubSeq(msg, 2, i - 1), context)
         IN  IF ~test.ok THEN Failed
             ELSE IF test.b THEN render_text(SubSeq(msg, i + 1, j - 1), context)
             ELSE render_text(SubSeq(msg, j + 1, k - 1), context)
    ELSE render_text(msg, context)

(***************************************************************************)
(* src/utils.rs and the private copies in src/main.rs.                     *)
(***************************************************************************)
\* utils.rs: the context is vars.
replace_placeholders(msg, vars) == render(msg, vars)

\* main.rs: the context is the registers, then the vars inserted over them.
main_context(register_map, vars) ==
    [k \in (DOMAIN register_map) \cup (DOMAIN vars) |->
        IF k \in DOMAIN vars THEN vars[k] ELSE to_value(register_map[k])]

main_replace_placeholders(msg, register_map, vars) ==
    render(msg, main_context(register_map, vars))

\* The tokens whose text contains the substring from_json.
FromJsonTokens == {"{{x|from_json}}", "from_json", LiteralClose}
contains_from_json(msg) == \E i \in 1..Len(msg) : msg[i] \in FromJsonTokens

\* serde_json::from_str on the modelled JSON texts: a scalar, or an object
\* with one key.  Whitespace between the tokens is skipped.
JsonStrings ==
    ("\"a\"" :> <<"a">>) @@ ("\"k\"" :> <<"k">>) @@ ("\"x\"" :> <<"x">>) @@
    ("\"y\"" :> <<"y">>)
JsonError == [ok |-> FALSE, v |-> Null]

json_scalar(tok) ==
    CASE tok \in {"0", "1", "2"} ->
            [ok |-> TRUE, v |-> Num(CHOOSE n \in 0..2 : ToString(n) = tok)]
      [] tok = "null" -> [ok |-> TRUE, v |-> Null]
      [] tok = "true" -> [ok |-> TRUE, v |-> Bool(TRUE)]
      [] tok = "false" -> [ok |-> TRUE, v |-> Bool(FALSE)]
      [] tok \in DOMAIN JsonStrings -> [ok |-> TRUE, v |-> Str(JsonStrings[tok])]
      [] OTHER -> JsonError

from_str(text) ==
    LET s == SelectSeq(text, LAMBDA c : ~IsWhitespace(c) /\ c # "\n")
    IN  IF Len(s) = 1 THEN json_scalar(s[1])
        ELSE IF Len(s) = 2 /\ s = <<"{", "}">> THEN [ok |-> TRUE, v |-> Map(EmptyMap)]
        ELSE IF Len(s) = 5 /\ s[1] = "{" /\ s[2] \in DOMAIN JsonStrings /\ s[3] = ":"
                /\ json_scalar(s[4]).ok /\ s[5] = "}"
        THEN [ok |-> TRUE, v |-> Map(JsonStrings[s[2]][1] :> json_scalar(s[4]).v)]
        ELSE JsonError

\* Variant of coerce that parses whatever rendered text is JSON.
coerce_by_output(msg, rendered) ==
    IF ~rendered.ok THEN [ok |-> FALSE, v |-> Null]
    ELSE IF from_str(rendered.s).ok THEN from_str(rendered.s)
    ELSE [ok |-> TRUE, v |-> Str(rendered.s)]

\* Variant of coerce that never parses the rendered text.
coerce_plain(msg, rendered) ==
    IF ~rendered.ok THEN [ok |-> FALSE, v |-> Null]
    ELSE [ok |-> TRUE, v |-> Str(rendered.s)]

\* The value a vars entry evaluates to, given its rendered text.
coerce(msg, rendered) ==
    IF ~rendered.ok THEN [ok |-> FALSE, v |-> Null]
    ELSE IF contains_from_json(msg) THEN from_str(rendered.s)
    ELSE [ok |-> TRUE, v |-> Str(rendered.s)]

replace_placeholders_vars(msg, vars) == coerce(msg, replace_placeholders(msg, vars))

main_replace_placeholders_vars(msg, register_map, vars) ==
    coerce(msg, main_replace_placeholders(msg, register_map, vars))

\* Variant of split_step that joins a continued line without a space.
split_step_no_space(acc, line) ==
    LET trimmed == trim(line)
    IN  IF trimmed = <<>> THEN acc
        ELSE IF ends_with(trimmed, "\\")
        THEN [acc EXCEPT !.current_command =
                 @ \o trim_end(trim_end_matches(trimmed, "\\"))]
        ELSE [commands |-> Append(acc.commands, acc.current_command \o trimmed),
              current_command |-> <<>>]

\* The loop body of split_commands: one line folded into (commands, current).
split_step(acc, line) ==
    LET trimmed == trim(line)
    IN  IF trimmed = <<>> THEN acc
        ELSE IF ends_with(trimmed, "\\")
        THEN [acc EXCEPT !.current_command =
                 @ \o trim_end(trim_end_matches(trimmed, "\\")) \o <<" ">>]
        ELSE [commands |-> Append(acc.commands, acc.current_command \o trimmed),
              current_command |-> <<>>]

RECURSIVE split_fold(_, _)
split_fold(acc, ls) ==
    IF ls = <<>> THEN acc ELSE split_fold(split_step(acc, Head(ls)), Tail(ls))

split_commands(input) ==
    LET acc == split_fold([commands |-> <<>>, current_command |-> <<>>], lines(input))
    IN  IF acc.current_command # <<>>
        THEN Append(acc.commands, acc.current_command)
        ELSE acc.commands

(***************************************************************************)
(* The command executors.  proc is what the started process does: whether  *)
(* it could be started at all, the bytes it writes on its two streams, and *)
(* its exit status (signaled: killed by a signal, no status available).    *)
(***************************************************************************)
\* shown is what the executor has printed while the command ran.
ExecOk(stdout, stderr, exit_status, shown) ==
    [kind |-> "ok", stdout |-> stdout, stderr |-> stderr, exit_status |-> exit_status,
     shown |-> shown]
ExecErr == [kind |-> "err", stdout |-> <<>>, stderr |-> <<>>, exit_status |-> 0, shown |-> <<>>]
ExecPanic ==
    [kind |-> "panic", stdout |-> <<>>, stderr |-> <<>>, exit_status |-> 0, shown |-> <<>>]

\* The (stdout, stderr, exit status) an executor hands back.
triple(result) == <<result.stdout, result.stderr, result.exit_status>>

\* shell_words::split, as far as the model needs it: the words of a command.
shell_words_split(command) ==
    LET p == SplitOn(command, " ", <<>>)
    IN  SelectSeq(p, LAMBDA w : w # <<>>)

\* The for loop over reader.lines(): the lines joined by newlines.
RECURSIVE read_lines(_, _)
read_lines(acc, ls) ==
    IF ls = <<>> THEN acc
    ELSE read_lines((IF acc # <<>> THEN Append(acc, "\n") ELSE acc) \o Head(ls), Tail(ls))

\* println! of every line, if display_output.
RECURSIVE print_lines(_, _)
print_lines(display_output, ls) ==
    IF ~display_output \/ ls = <<>> THEN <<>>
    ELSE Head(ls) \o <<"\n">> \o print_lines(display_output, Tail(ls))

execute_local_command(command, use_shell, display_output, chdir, proc) ==
    IF ~use_shell /\ shell_words_split(command) = <<>> THEN ExecPanic
    ELSE IF ~proc.spawn THEN ExecErr
    ELSE ExecOk(read_lines(<<>>, lines(proc.out)),
                read_lines(<<>>, lines(proc.err)),
                IF proc.signaled THEN -1 ELSE proc.status,
                print_lines(display_output, lines(proc.out))
                    \o print_lines(display_output, lines(proc.err)))

\* The poll loop appends every chunk read from a stream to its accumulator,
\* and prints it if display_output.
execute_ssh_command(session, command, use_shell, display_output, chdir, proc) ==
    IF ~proc.spawn THEN ExecErr
    ELSE ExecOk(proc.out, proc.err, proc.status,
                IF display_output THEN proc.out \o proc.err ELSE <<>>)

execute(is_localhost, session, command, use_shell, display_output, chdir, proc) ==
    IF is_localhost THEN execute_local_command(command, use_shell, display_output, chdir, proc)
    ELSE execute_ssh_command(session, command, use_shell, display_output, chdir, proc)

(***************************************************************************)
(* src/modules/command.rs, when.rs and their private copies in main.rs.    *)
(* A handler returns the outcome and the map it may have written.          *)
(***************************************************************************)
\* Variant of handle_command_execution that stores the two streams exchanged.
handle_command_execution_swapped(result, register, vars_map) ==
    IF result.kind = "ok"
    THEN IF result.exit_status # 0 THEN [ok |-> FALSE, map |-> vars_map]
         ELSE IF IsSome(register)
         THEN [ok |-> TRUE,
               map |-> Insert(vars_map, Unwrap(register),
                          to_value(Register(result.stderr, result.stdout, result.exit_status)))]
         ELSE [ok |-> TRUE, map |-> vars_map]
    ELSE [ok |-> FALSE, map |-> vars_map]

\* Variant of handle_command_execution that takes only a positive status for a failure.
handle_command_execution_positive(result, register, vars_map) ==
    IF result.kind = "ok"
    THEN IF result.exit_status > 0 THEN [ok |-> FALSE, map |-> vars_map]
         ELSE IF IsSome(register)
         THEN [ok |-> TRUE,
               map |-> Insert(vars_map, Unwrap(register),
                          to_value(Register(result.stdout, result.stderr, result.exit_status)))]
         ELSE [ok |-> TRUE, map |-> vars_map]
    ELSE [ok |-> FALSE, map |-> vars_map]

\* Variant of handle_command_execution that writes the register before it
\* looks at the exit status.
handle_command_execution_unchecked(result, register, vars_map) ==
    IF result.kind = "ok"
    THEN IF IsSome(register)
         THEN [ok |-> result.exit_status = 0,
               map |-> Insert(vars_map, Unwrap(register),
                          to_value(Register(result.stdout, result.stderr, result.exit_status)))]
         ELSE [ok |-> result.exit_status = 0, map |-> vars_map]
    ELSE [ok |-> FALSE, map |-> vars_map]

handle_command_execution(result, register, vars_map) ==
    IF result.kind = "ok"
    THEN IF result.exit_status # 0 THEN [ok |-> FALSE, map |-> vars_map]
         ELSE IF IsSome(register)
         THEN [ok |-> TRUE,
               map |-> Insert(vars_map, Unwrap(register),
                          to_value(Register(result.stdout, result.stderr, result.exit_status)))]
         ELSE [ok |-> TRUE, map |-> vars_map]
    ELSE [ok |-> FALSE, map |-> vars_map]

main_handle_command_execution(result, register, register_map) ==
    IF result.kind = "ok"
    THEN IF result.exit_status # 0 THEN [ok |-> FALSE, map |-> register_map]
         ELSE IF IsSome(register)
         THEN [ok |-> TRUE,
               map |-> Insert(register_map, Unwrap(register),
                          Register(result.stdout, result.stderr, result.exit_status))]
         ELSE [ok |-> TRUE, map |-> register_map]
    ELSE [ok |-> FALSE, map |-> register_map]

\* format!("{{% if {} %}}true{{% else %}}false{{% endif %}}", cond)
when_template(cond) ==
    <<"{% if">> \o cond \o <<"%}", "true", "{% else %}", "false", "{% endif %}">>

\* Variant of when_process that takes a rendering error for a true condition.
when_process_lenient(condition, vars_map) ==
    IF IsSome(condition)
    THEN LET rendered_cond == replace_placeholders(when_template(Unwrap(condition)), vars_map)
         IN  IF rendered_cond.ok /\ rendered_cond.s = <<"false">> THEN [ok |-> TRUE, run |-> FALSE]
             ELSE [ok |-> TRUE, run |-> TRUE]
    ELSE [ok |-> TRUE, run |-> TRUE]

\* when.rs process: ok is FALSE when rendering exits the process.
when_process(condition, vars_map) ==
    IF IsSome(condition)
    THEN LET rendered_cond == replace_placeholders(when_template(Unwrap(condition)), vars_map)
         IN  IF ~rendered_cond.ok THEN [ok |-> FALSE, run |-> FALSE]
             ELSE IF rendered_cond.s = <<"false">> THEN [ok |-> TRUE, run |-> FALSE]
             ELSE [ok |-> TRUE, run |-> TRUE]
    ELSE [ok |-> TRUE, run |-> TRUE]

\* Variant of should_run_task that compares the rendered text with "False".
should_run_task_capital(condition, register_map, vars_map) ==
    IF IsSome(condition)
    THEN LET rendered_cond ==
                 main_replace_placeholders(when_template(Unwrap(condition)), register_map, vars_map)
         IN  IF ~rendered_cond.ok THEN [ok |-> FALSE, run |-> FALSE]
             ELSE IF rendered_cond.s = <<"False">> THEN [ok |-> TRUE, run |-> FALSE]
             ELSE [ok |-> TRUE, run |-> TRUE]
    ELSE [ok |-> TRUE, run |-> TRUE]

should_run_task(condition, register_map, vars_map) ==
    IF IsSome(condition)
    THEN LET rendered_cond ==
                 main_replace_placeholders(when_template(Unwrap(condition)), register_map, vars_map)
         IN  IF ~rendered_cond.ok THEN [ok |-> FALSE, run |-> FALSE]
             ELSE IF rendered_cond.s = <<"false">> THEN [ok |-> TRUE, run |-> FALSE]
             ELSE [ok |-> TRUE, run |-> TRUE]
    ELSE [ok |-> TRUE, run |-> TRUE]

(***************************************************************************)
(* The inputs: the inventory (servers.yml), the --extra-vars argument and  *)
(* the tasks a deployment document may contain.                            *)
(***************************************************************************)
TargetHost(host, port, user, password, ssh_key_path) ==
    [host |-> host, port |-> port, user |-> user, password |-> password,
     ssh_key_path |-> ssh_key_path]

Inventory ==
    ("local" :> TargetHost("localhost", None, None, None, None)) @@
    ("web" :> TargetHost("10.0.0.5", Some(2222), Some("root"), Some("password"), None)) @@
    ("bare" :> TargetHost("10.0.0.6", None, Some("root"), Some("password"), None))

\* The names a deployment's hosts field may list; "ghost" is not in the inventory.
HostNames == {"local", "web", "bare", "ghost"}

ExtraVarsInputs ==
    {None, Some(<<"x", "=", "1">>), Some(<<"{", "\"y\"", ":", "2", "}">>)}

KV(k, v) == [key |-> k, value |-> v]

Task(name, when, vars, debug, shell, command, register, loop) ==
    [name |-> name, when |-> when, vars |-> vars, debug |-> debug, shell |-> shell,
     command |-> command, register |-> register, loop |-> loop, chdir |-> None,
     include_tasks |-> None]

\* The task with the given chdir.
WithChdir(task, dir) == [task EXCEPT !.chdir = Some(dir)]

\* The task with the given include_tasks.
WithInclude(task, include_file) == [task EXCEPT !.include_tasks = Some(include_file)]

\* The task-list documents there are: inner.yml holds one task, which binds y,
\* runs a command and registers its output as r.
Files ==
    "inner.yml" :>
        << Task(<<"inner">>, None, <<KV("y", <<"b">>)>>, <<>>, None,
                Some(<<"echo", " ", "{{y}}">>), Some("r"), None) >>

TaskSet ==
    { WithInclude(
          WithChdir(Task(<<"set">>, None, <<KV("x", <<"a">>), KV("y", <<"{{x}}">>)>>,
                         <<KV("m", <<"{{y}}">>)>>, None, Some(<<"echo", " ", "{{y}}">>),
                         None, None),
                    <<"/app/", "{{x}}">>),
          "inner.yml"),
      Task(<<"capture", " ", "{{y}}">>, Some(<<"x", "==", "'a'">>), <<>>, <<>>,
           Some(<<"date", "\n", "id", " ", "\\", "\n", "-u">>), None, Some("r"),
           Some(<<Num(1), Null>>)),
      Task(<<"show">>, None, <<>>, <<KV("m", <<"{{r.stdout}}">>)>>, None,
           Some(<<"echo", " ", "{{x}}">>), None, None),
      Task(<<"each">>, None, <<>>, <<KV("i", <<"{{item}}">>)>>,
           Some(<<"echo", " ", "{{item}}">>), None, None, Some(<<Num(1), Num(2)>>)),
      Task(<<"json">>, None, <<KV("y", <<"{{x|from_json}}">>), KV("r", <<"a">>)>>, <<>>,
           Some(<<"a">>), Some(<<"b">>), Some("r"), None) }

\* The task lists of a deployment: 1..MaxTasks tasks.
TaskLists == UNION {[1..n -> TaskSet] : n \in 1..MaxTasks}

\* The deployments of the deploy document: a deployment with a chdir begins
\* with the task set, which has a chdir of its own, and may go on with a task
\* that has none.
Deployment(chdir, tasks) == [chdir |-> chdir, tasks |-> tasks]
Deployments ==
    {Deployment(None, ts) : ts \in TaskLists}
      \cup {Deployment(Some(<<"/srv">>), ts) : ts \in {l \in TaskLists : l[1].name = <<"set">>}}

\* What a started process may do.
\* The (stdout, stderr) bytes of the modelled processes that exit with 0.
Outputs == {<< <<"h", "\n">>, <<"e", "\n">> >>}
Proc(spawn, out, err, status, signaled) ==
    [spawn |-> spawn, out |-> out, err |-> err, status |-> status, signaled |-> signaled]
Procs(is_localhost) ==
    {Proc(TRUE, o[1], o[2], 0, FALSE) : o \in Outputs}
    \cup {Proc(TRUE, <<>>, <<"e", "\n">>, 1, FALSE), Proc(FALSE, <<>>, <<>>, 0, FALSE)}
    \cup (IF is_localhost THEN {Proc(TRUE, <<"h", "\n">>, <<>>, 0, TRUE)} ELSE {})

(***************************************************************************)
(* The state of a run.                                                     *)
(***************************************************************************)
VARIABLES
    impl,          \* "main": the private functions of main.rs; "modules": src/modules
    extra_vars,    \* the --extra-vars argument
    pc,            \* the step the driver performs next
    exit_code,     \* the exit code of the process, once it has ended
    ndeps,         \* deployments started
    nhosts,        \* hosts of the current deployment started
    tasks,         \* dep.tasks of the current deployment
    dep_chdir,     \* dep.chdir of the current deployment
    stack,         \* the engines that wait for an included task list to end
    is_localhost,  \* the current host is localhost
    session,       \* the session of the current host, if it is remote
    task_idx,      \* index of the current task
    idx,           \* index of the next vars or debug entry of the task
    loop_idx,      \* index of the current loop value
    commands,      \* logical commands of the current shell/command field still to run
    vars_map,
    register_map,
    errors,        \* history: the kinds of error that have occurred in this deployment
    last,          \* history: what the last step did
    trace,         \* history: the steps of the task begun last on this host, in order
    ctx0,          \* history: vars_map when the running merge of a task's vars began
    written,       \* history: per key, the source and value of the last write
    input,         \* the arguments of the function a unit specification applies
    output,        \* the value that function has returned, if it has
    channel        \* the channel of the remote command execute_ssh_command is running

\* The state of the driver, and the state of one function studied on its own.
driver == <<impl, extra_vars, pc, exit_code, ndeps, nhosts, tasks, dep_chdir, stack,
            is_localhost, session, task_idx, idx, loop_idx, commands, vars_map, register_map,
            errors, last, trace, ctx0, written>>
units == <<input, output, channel>>

vars == <<impl, extra_vars, pc, exit_code, ndeps, nhosts, tasks, dep_chdir, stack,
          is_localhost, session, task_idx, idx, loop_idx, commands, vars_map, register_map,
          errors, last, trace, ctx0, written, input, output, channel>>

\* The context templates are rendered against.
Context ==
    IF impl = "main" THEN main_context(register_map, vars_map) ELSE vars_map

\* No function is studied on its own and no remote command is running.
NoUnit ==
    /\ input = None
    /\ output = None
    /\ channel = None

\* The driver before main has read its arguments.
InitDriver ==
    /\ impl \in {"main", "modules"}
    /\ extra_vars \in ExtraVarsInputs
    /\ pc = "args"
    /\ exit_code = None
    /\ ndeps = 0
    /\ nhosts = 0
    /\ tasks = <<>>
    /\ dep_chdir = None
    /\ stack = <<>>
    /\ is_localhost = FALSE
    /\ session = None
    /\ task_idx = 0
    /\ idx = 0
    /\ loop_idx = 0
    /\ commands = <<>>
    /\ vars_map = EmptyMap
    /\ register_map = EmptyMap
    /\ errors = {}
    /\ last = [step |-> "init"]
    /\ trace = <<>>
    /\ ctx0 = EmptyMap
    /\ written = EmptyMap

Init == InitDriver /\ NoUnit

(***************************************************************************)
(* Where the driver continues: the steps of a task that have nothing to do *)
(* are passed over.                                                        *)
(***************************************************************************)
Pos(p, i, c, l, t) == [pc |-> p, idx |-> i, commands |-> c, loop_idx |-> l, task_idx |-> t]

\* The end of the body of "for task in &dep.tasks".
end_task(ts, t) ==
    IF t < Len(ts) THEN Pos("task", 0, <<>>, 0, t + 1) ELSE Pos("host", 0, <<>>, 0, 0)

\* The loop sequence of a task: its loop, or one null placeholder.
loop_items(task) == IF IsSome(task.loop) THEN Unwrap(task.loop) ELSE <<Null>>

end_iteration(im, ts, t, l) ==
    IF im = "modules" /\ l < Len(loop_items(ts[t]))
    THEN Pos("loop", 0, <<>>, l + 1, t)
    ELSE end_task(ts, t)

\* After the commands of an iteration the engine of the modules turns to the
\* include_tasks of the task; the Task of main.rs has no such field.
enter_include(im, ts, t, l) ==
    IF im = "modules" /\ IsSome(ts[t].include_tasks)
    THEN Pos("include", 0, <<>>, l, t)
    ELSE end_iteration(im, ts, t, l)

enter_command(im, ts, t, l) ==
    LET cmds == IF IsSome(ts[t].command) THEN split_commands(Unwrap(ts[t].command)) ELSE <<>>
    IN  IF cmds # <<>> THEN Pos("command", 0, cmds, l, t) ELSE enter_include(im, ts, t, l)

\* Variant of enter_shell that turns to task.command with the shell commands
\* not run.
enter_shell_skipped(im, ts, t, l) == enter_command(im, ts, t, l)

enter_shell(im, ts, t, l) ==
    LET cmds == IF IsSome(ts[t].shell) THEN split_commands(Unwrap(ts[t].shell)) ELSE <<>>
    IN  IF cmds # <<>> THEN Pos("shell", 0, cmds, l, t) ELSE enter_command(im, ts, t, l)

enter_debug(im, ts, t, l) ==
    IF ts[t].debug # <<>> THEN Pos("debug", 1, <<>>, l, t) ELSE enter_shell(im, ts, t, l)

enter_loop(im, ts, t) ==
    IF im = "modules"
    THEN IF loop_items(ts[t]) # <<>> THEN Pos("loop", 0, <<>>, 1, t) ELSE end_task(ts, t)
    ELSE enter_debug(im, ts, t, 0)

enter_vars(im, ts, t) ==
    IF ts[t].vars # <<>> THEN Pos("vars", 1, <<>>, 0, t) ELSE enter_loop(im, ts, t)

\* History: the last write to key k came from src and stored val.
Note(w, k, src, val) ==
    [j \in (DOMAIN w) \cup {k} |-> IF j = k THEN [src |-> src, val |-> val] ELSE w[j]]

\* Where position p leads while the engines st wait: the end of an included
\* task list is not the end of the host's tasks but a return to the engine
\* that included it.
land(p, st) == IF p.pc = "host" /\ st # <<>> THEN [p EXCEPT !.pc = "return"] ELSE p

\* The driver continues at position p, with the engines st waiting.
GotoOn(p, st) ==
    /\ pc' = land(p, st).pc
    /\ idx' = p.idx
    /\ commands' = p.commands
    /\ loop_idx' = p.loop_idx
    /\ task_idx' = p.task_idx
    /\ session' = IF land(p, st).pc = "host" THEN None ELSE session
    /\ is_localhost' = IF land(p, st).pc = "host" THEN FALSE ELSE is_localhost
    /\ UNCHANGED exit_code

\* The driver continues at position p.
Goto(p) == GotoOn(p, stack)

\* The process ends with the given exit code.
Exit(code) ==
    /\ pc' = "done"
    /\ exit_code' = Some(code)
    /\ UNCHANGED <<idx, commands, loop_idx, task_idx, session, is_localhost>>

(***************************************************************************)
(* main: the --extra-vars argument is loaded into vars_map.                *)
(***************************************************************************)
RECURSIVE extra_vars_pairs(_, _)
extra_vars_pairs(m, parts) ==
    IF parts = <<>> THEN m
    ELSE LET var == Head(parts)
         IN  IF \E i \in 1..Len(var) : var[i] = "="
             THEN LET i == IndexOf(var, "=")
                      key == IF i = 1 THEN "" ELSE var[1]
                  IN  extra_vars_pairs(
                          Insert(m, key, Str(SubSeq(var, i + 1, Len(var)))), Tail(parts))
             ELSE extra_vars_pairs(m, Tail(parts))

parse_extra_vars(text, m) ==
    IF text # <<>> /\ Head(text) = "{"
    THEN LET json_vars == from_str(text)
         IN  IF json_vars.ok /\ json_vars.v.t = "map"
             THEN [ok |-> TRUE, map |-> [k \in (DOMAIN m) \cup (DOMAIN json_vars.v.m) |->
                        IF k \in DOMAIN json_vars.v.m THEN json_vars.v.m[k] ELSE m[k]]]
             ELSE [ok |-> FALSE, map |-> m]
    ELSE [ok |-> TRUE, map |-> extra_vars_pairs(m, SplitOn(text, " ", <<>>))]

LoadExtraVars ==
    /\ pc = "args"
    /\ UNCHANGED units
    /\ LET r == IF IsSome(extra_vars) THEN parse_extra_vars(Unwrap(extra_vars), vars_map)
                ELSE [ok |-> TRUE, map |-> vars_map]
       IN  /\ vars_map' = r.map
           /\ written' = [k \in DOMAIN r.map |-> [src |-> "cli", val |-> r.map[k]]]
           /\ IF r.ok
              THEN /\ pc' = "deployment"
                   /\ UNCHANGED <<exit_code, errors>>
              ELSE /\ pc' = "done"
                   /\ exit_code' = Some(1)
                   /\ errors' = errors \cup {"InvalidJson"}
    /\ last' = [step |-> "args"]
    /\ UNCHANGED <<impl, extra_vars, ndeps, nhosts, tasks, dep_chdir, stack, is_localhost, session, task_idx,
                   idx, loop_idx, commands, register_map, trace, ctx0>>

(***************************************************************************)
(* main: for dep in deployments / for host in hosts.                       *)
(***************************************************************************)
\* Variant of loop_context in which every pass of the loops begins with an
\* empty map.
loop_context_fresh(m) == EmptyMap

\* register_map and vars_map are declared before "for dep in deployments" and
\* borrowed by the bodies of the loops: a pass begins with the map as the
\* pass before it has left it.
loop_context(m) == m

StartDeployment ==
    /\ pc = "deployment"
    /\ UNCHANGED units
    /\ ndeps < MaxDeployments
    /\ \E dep \in Deployments :
         /\ tasks' = dep.tasks
         /\ dep_chdir' = dep.chdir
    /\ UNCHANGED stack
    /\ errors' = {}
    /\ ndeps' = ndeps + 1
    /\ nhosts' = 0
    /\ pc' = "host"
    /\ last' = [step |-> "deployment"]
    /\ vars_map' = loop_context(vars_map)
    /\ register_map' = loop_context(register_map)
    /\ UNCHANGED <<impl, extra_vars, exit_code, is_localhost, session, task_idx, idx,
                   loop_idx, commands, trace, ctx0, written>>

\* The deployments are exhausted: main returns Ok(()).
Finish ==
    /\ pc = "deployment"
    /\ UNCHANGED units
    /\ Exit(0)
    /\ last' = [step |-> "finish"]
    /\ UNCHANGED <<impl, extra_vars, ndeps, nhosts, tasks, dep_chdir, stack, vars_map, register_map, errors,
                   trace, ctx0, written>>

\* The hosts of the deployment are exhausted (a hosts field names at least one).
EndHosts ==
    /\ pc = "host"
    /\ UNCHANGED units
    /\ nhosts >= 1
    /\ pc' = "deployment"
    /\ tasks' = <<>>
    /\ dep_chdir' = None
    /\ UNCHANGED stack
    /\ trace' = <<>>
    /\ last' = [step |-> "end_hosts"]
    /\ UNCHANGED <<impl, extra_vars, exit_code, ndeps, nhosts, is_localhost, session,
                   task_idx, idx, loop_idx, commands, vars_map, register_map, errors, ctx0,
                   written>>

\* setup_ssh_session: the connection and the authentication may fail.
setup_ssh_session(target_host, reachable) ==
    reachable /\ (IsSome(target_host.ssh_key_path) \/ IsSome(target_host.password))

\* Variant of host_visit in which a missing host ends the run.
host_visit_strict(server_config, host, reachable) ==
    IF host \notin DOMAIN server_config THEN [kind |-> "error", err |-> "MissingHostConfig"]
    ELSE LET target_host == server_config[host]
         IN  IF target_host.host = "localhost" THEN [kind |-> "ok", err |-> ""]
             ELSE IF ~IsSome(target_host.port) THEN [kind |-> "error", err |-> "MissingPort"]
             ELSE IF ~IsSome(target_host.user) THEN [kind |-> "error", err |-> "MissingUser"]
             ELSE IF ~setup_ssh_session(target_host, reachable)
             THEN [kind |-> "error", err |-> "AuthenticationFailure"]
             ELSE [kind |-> "ok", err |-> ""]

\* The outcome of "if let Some(target_host) = server_config.hosts.get(host)"
\* up to the first task: the host is missing, the visit fails, or it begins.
host_visit(server_config, host, reachable) ==
    IF host \notin DOMAIN server_config THEN [kind |-> "missing", err |-> "MissingHostConfig"]
    ELSE LET target_host == server_config[host]
         IN  IF target_host.host = "localhost" THEN [kind |-> "ok", err |-> ""]
             ELSE IF ~IsSome(target_host.port) THEN [kind |-> "error", err |-> "MissingPort"]
             ELSE IF ~IsSome(target_host.user) THEN [kind |-> "error", err |-> "MissingUser"]
             ELSE IF ~setup_ssh_session(target_host, reachable)
             THEN [kind |-> "error", err |-> "AuthenticationFailure"]
             ELSE [kind |-> "ok", err |-> ""]

\* Variant of host_session that connects to localhost as well.
host_session_always(target_host, host, dep, visit) ==
    Some([host |-> host, dep |-> dep, visit |-> visit])

\* "let session = if !is_localhost { Some(setup_ssh_session(..)?) } else { None }":
\* the session opened in the given visit of the given deployment.
host_session(target_host, host, dep, visit) ==
    IF target_host.host # "localhost"
    THEN Some([host |-> host, dep |-> dep, visit |-> visit])
    ELSE None

\* The host is not in the inventory: it is reported and the next host follows.
MissingHost ==
    /\ pc = "host"
    /\ UNCHANGED units
    /\ nhosts < MaxHosts
    /\ \E host \in HostNames, reachable \in BOOLEAN :
         /\ host_visit(Inventory, host, reachable).kind = "missing"
         /\ last' = [step |-> "host", host |-> host]
    /\ nhosts' = nhosts + 1
    /\ trace' = <<>>
    /\ errors' = errors \cup {"MissingHostConfig"}
    /\ UNCHANGED <<impl, extra_vars, pc, exit_code, ndeps, tasks, dep_chdir, stack, is_localhost, session,
                   task_idx, idx, loop_idx, commands, vars_map, register_map, ctx0, written>>

\* The host is in the inventory: its tasks begin, or the connection fails.
VisitHost ==
    /\ pc = "host"
    /\ UNCHANGED units
    /\ nhosts < MaxHosts
    /\ \E host \in HostNames, reachable \in BOOLEAN :
         LET visit == host_visit(Inventory, host, reachable)
         IN  /\ visit.kind # "missing"
             /\ last' = [step |-> "host", host |-> host]
             /\ IF visit.kind = "error"
                THEN /\ Exit(1)
                     /\ errors' = errors \cup {visit.err}
                ELSE /\ pc' = "task"
                     /\ task_idx' = 1
                     /\ is_localhost' = (Inventory[host].host = "localhost")
                     /\ session' = host_session(Inventory[host], host, ndeps, nhosts + 1)
                     /\ UNCHANGED <<exit_code, errors, idx, loop_idx, commands>>
    /\ nhosts' = nhosts + 1
    /\ trace' = <<>>
    /\ vars_map' = loop_context(vars_map)
    /\ register_map' = loop_context(register_map)
    /\ UNCHANGED <<impl, extra_vars, ndeps, tasks, dep_chdir, stack, ctx0, written>>

(***************************************************************************)
(* main: the body of "for task in &dep.tasks", one step per action.        *)
(***************************************************************************)
\* The condition, a template and a vars value, by the linked implementation.
run_condition(im, condition, rm, vm) ==
    IF im = "main" THEN should_run_task(condition, rm, vm) ELSE when_process(condition, vm)

render_in(im, msg, rm, vm) ==
    IF im = "main" THEN main_replace_placeholders(msg, rm, vm) ELSE replace_placeholders(msg, vm)

\* Variant of render_vars_in that renders every value against the context as it
\* was when the merge began.
render_vars_in_simultaneous(im, msg, rm, vm) ==
    IF im = "main" THEN main_replace_placeholders_vars(msg, rm, ctx0)
    ELSE replace_placeholders_vars(msg, ctx0)

render_vars_in(im, msg, rm, vm) ==
    IF im = "main" THEN main_replace_placeholders_vars(msg, rm, vm)
    ELSE replace_placeholders_vars(msg, vm)

\* Variant of after_when that passes over the vars of the task.
after_when_no_vars(im, ts, t) == enter_loop(im, ts, t)

\* What follows the evaluation of the condition of a task that runs.
after_when(im, ts, t) == enter_vars(im, ts, t)

\* The engine of the modules renders the name of a task before anything else.
render_name(name, vm) == replace_placeholders(name, vm)

\* The name a task is announced with: main prints task.name as it is written,
\* after the condition has been evaluated.
task_name(im, name, vm) ==
    IF im = "main" THEN [ok |-> TRUE, s |-> name] ELSE render_name(name, vm)

\* The beginning of a task: its name and its condition.
EvaluateWhen ==
    /\ pc = "task"
    /\ UNCHANGED units
    /\ LET task == tasks[task_idx]
           name == task_name(impl, task.name, vars_map)
           w == run_condition(impl, task.when, register_map, vars_map)
           next == IF w.run THEN after_when(impl, tasks, task_idx)
                   ELSE end_task(tasks, task_idx)
       IN  IF ~name.ok
           THEN /\ last' = [step |-> "name", ok |-> FALSE]
                /\ Exit(1)
                /\ errors' = errors \cup {"UndefinedVariable"}
                /\ trace' = <<"name">>
                /\ UNCHANGED ctx0
           ELSE /\ last' = [step |-> "when", ok |-> w.ok, run |-> w.run, task |-> task_idx,
                            name |-> name.s, context |-> Context]
                /\ trace' = <<"when">>
                /\ IF ~w.ok
                   THEN /\ Exit(1)
                        /\ errors' = errors \cup {"UndefinedVariable"}
                        /\ UNCHANGED ctx0
                   ELSE /\ Goto(next)
                        /\ ctx0' = IF next.pc = "vars" THEN vars_map ELSE EmptyMap
                        /\ UNCHANGED errors
    /\ UNCHANGED <<impl, extra_vars, ndeps, nhosts, tasks, dep_chdir, stack, vars_map, register_map, written>>

\* Variant of merge_var that keeps the value of a key that is already bound.
merge_var_keep(vm, key, evaluated_value) ==
    IF key \in DOMAIN vm THEN vm ELSE Insert(vm, key, evaluated_value)

\* vars_map.insert(key.clone(), evaluated_value)
merge_var(vm, key, evaluated_value) == Insert(vm, key, evaluated_value)

\* One iteration of "for (key, value) in vars".
MergeVar ==
    /\ pc = "vars"
    /\ UNCHANGED units
    /\ LET task == tasks[task_idx]
           entry == task.vars[idx]
           evaluated_value == render_vars_in(impl, entry.value, register_map, vars_map)
           next == IF idx < Len(task.vars) THEN Pos("vars", idx + 1, <<>>, 0, task_idx)
                   ELSE enter_loop(impl, tasks, task_idx)
       IN  /\ last' = [step |-> "var", key |-> entry.key, ok |-> evaluated_value.ok]
           /\ IF ~evaluated_value.ok
              THEN /\ Exit(1)
                   /\ errors' = errors \cup
                        {IF render_in(impl, entry.value, register_map, vars_map).ok
                         THEN "InvalidJson" ELSE "UndefinedVariable"}
                   /\ UNCHANGED <<vars_map, written, ctx0>>
              ELSE /\ vars_map' = merge_var(vars_map, entry.key, evaluated_value.v)
                   /\ written' = Note(written, entry.key, "var", evaluated_value.v)
                   /\ Goto(next)
                   /\ ctx0' = IF next.pc = "vars" THEN ctx0 ELSE EmptyMap
                   /\ UNCHANGED errors
    /\ trace' = Append(trace, "var")
    /\ UNCHANGED <<impl, extra_vars, ndeps, nhosts, tasks, dep_chdir, stack, register_map>>

\* Variant of bind_item that leaves item as it is when the loop value is null.
bind_item_keep(vm, item) ==
    IF item # Null THEN Insert(Remove(vm, "item"), "item", item) ELSE vm

\* The start of a loop iteration: item is removed, and bound again if the
\* loop value is not null.
bind_item(vm, item) ==
    IF item # Null THEN Insert(Remove(vm, "item"), "item", item) ELSE Remove(vm, "item")

BindItem ==
    /\ pc = "loop"
    /\ UNCHANGED units
    /\ LET item == loop_items(tasks[task_idx])[loop_idx]
       IN  /\ vars_map' = bind_item(vars_map, item)
           /\ written' = IF item # Null
                         THEN Note(written, "item", "item", item)
                         ELSE [k \in (DOMAIN written) \ {"item"} |-> written[k]]
           /\ last' = [step |-> "item", item |-> item]
    /\ Goto(enter_debug(impl, tasks, task_idx, loop_idx))
    /\ trace' = Append(trace, "item")
    /\ UNCHANGED <<impl, extra_vars, ndeps, nhosts, tasks, dep_chdir, stack, register_map, errors, ctx0>>

\* One iteration of "for (key, msg) in debug.0.iter()".
Debug ==
    /\ pc = "debug"
    /\ UNCHANGED units
    /\ LET task == tasks[task_idx]
           debug_msg == render_in(impl, task.debug[idx].value, register_map, vars_map)
       IN  /\ last' = [step |-> "debug", ok |-> debug_msg.ok, text |-> debug_msg.s]
           /\ IF ~debug_msg.ok
              THEN /\ Exit(1)
                   /\ errors' = errors \cup {"UndefinedVariable"}
              ELSE /\ Goto(IF idx < Len(task.debug)
                           THEN Pos("debug", idx + 1, <<>>, loop_idx, task_idx)
                           ELSE enter_shell(impl, tasks, task_idx, loop_idx))
                   /\ UNCHANGED errors
    /\ trace' = Append(trace, "debug")
    /\ UNCHANGED <<impl, extra_vars, ndeps, nhosts, tasks, dep_chdir, stack, vars_map, register_map, ctx0,
                   written>>

\* The error an executor result stands for, if any.
exec_error(result) ==
    IF result.kind = "panic" THEN {"Panic"}
    ELSE IF result.kind = "err" THEN {"CommandSpawnError"}
    ELSE IF result.exit_status # 0 THEN {"NonZeroExit"}
    ELSE {}

\* handle_command_execution of the linked implementation, on the map it writes.
handle_in(im, result, register, rm, vm) ==
    IF im = "main" THEN main_handle_command_execution(result, register, rm)
    ELSE handle_command_execution(result, register, vm)

\* "task.chdir.as_deref().or(dep.chdir.as_deref())"
effective_chdir(task, chdir) == IF IsSome(task.chdir) THEN task.chdir ELSE chdir

\* The engine of the modules renders the effective chdir against the context
\* the task's vars were merged into (no command of the modelled tasks writes a
\* variable that a chdir reads).
render_chdir(dir, vm) == Some(replace_placeholders(Unwrap(dir), vm).s)

\* The working directory handed to the executor: main hands on the effective
\* chdir as it is written.
resolve_chdir(im, task, chdir, vm) ==
    LET dir == effective_chdir(task, chdir)
    IN  IF im = "main" \/ dir = None THEN dir ELSE render_chdir(dir, vm)

\* Variant of display_output that displays the output of every command.
display_output_always(register) == TRUE

\* "let display_output = register.is_none();"
display_output(register) == ~IsSome(register)

\* One iteration of "for cmd in commands" of process / process_commands.
RunCommand ==
    /\ pc \in {"shell", "command"}
    /\ UNCHANGED units
    /\ LET task == tasks[task_idx]
           cmd == Head(commands)
           use_shell == (pc = "shell")
           substituted_cmd == render_in(impl, cmd, register_map, vars_map)
           task_chdir == resolve_chdir(impl, task, dep_chdir, vars_map)
           next == IF Tail(commands) # <<>>
                   THEN Pos(pc, 0, Tail(commands), loop_idx, task_idx)
                   ELSE IF pc = "shell" THEN enter_command(impl, tasks, task_idx, loop_idx)
                   ELSE enter_include(impl, tasks, task_idx, loop_idx)
       IN  IF ~substituted_cmd.ok
           THEN /\ Exit(1)
                /\ errors' = errors \cup {"UndefinedVariable"}
                /\ last' = [step |-> "render", ok |-> FALSE]
                /\ UNCHANGED <<vars_map, register_map, written>>
           ELSE \E proc \in Procs(is_localhost) :
                  LET result == execute(is_localhost, session, substituted_cmd.s, use_shell,
                                        display_output(task.register), task_chdir, proc)
                      h == handle_in(impl, result, task.register, register_map, vars_map)
                  IN  /\ last' = [step |-> "exec", task |-> task_idx, context |-> Context,
                                  command |-> substituted_cmd.s,
                                  use_shell |-> use_shell,
                                  display_output |-> display_output(task.register),
                                  local |-> is_localhost, session |-> session,
                                  chdir |-> task_chdir, proc |-> proc, result |-> result]
                      /\ errors' = errors \cup exec_error(result)
                      /\ IF result.kind = "panic"
                         THEN /\ Exit(101)
                              /\ UNCHANGED <<vars_map, register_map, written>>
                         ELSE IF ~h.ok
                         THEN /\ Exit(1)
                              /\ IF impl = "main"
                                 THEN register_map' = h.map /\ UNCHANGED vars_map
                                 ELSE vars_map' = h.map /\ UNCHANGED register_map
                              /\ UNCHANGED written
                         ELSE /\ IF impl = "main"
                                 THEN register_map' = h.map /\ UNCHANGED vars_map
                                 ELSE vars_map' = h.map /\ UNCHANGED register_map
                              /\ written' =
                                   IF IsSome(task.register)
                                   THEN Note(written, Unwrap(task.register), "reg",
                                          Map(("stdout" :> Str(result.stdout)) @@
                                              ("stderr" :> Str(result.stderr)) @@
                                              ("rc" :> Num(result.exit_status))))
                                   ELSE written
                              /\ Goto(next)
    /\ trace' = Append(trace, pc)
    /\ UNCHANGED <<impl, extra_vars, ndeps, nhosts, tasks, dep_chdir, stack, ctx0>>

\* include_tasks::process: the tasks of the document, or an error.
include_tasks_process(include_file) ==
    IF include_file \in DOMAIN Files THEN [ok |-> TRUE, tasks |-> Files[include_file]]
    ELSE [ok |-> FALSE, tasks |-> <<>>]

\* Variant of include_chdir that hands on the default of the including list.
include_chdir_default(im, task, chdir, vm) == chdir

\* The default chdir of the included tasks: the effective chdir of the
\* including task.
include_chdir(im, task, chdir, vm) == resolve_chdir(im, task, chdir, vm)

\* The engine is invoked on the included task list, on the same context.
IncludeTasks ==
    /\ pc = "include"
    /\ UNCHANGED units
    /\ LET task == tasks[task_idx]
           included == include_tasks_process(Unwrap(task.include_tasks))
       IN  /\ last' = [step |-> "include", ok |-> included.ok]
           /\ IF ~included.ok
              THEN /\ Exit(1)
                   /\ errors' = errors \cup {"IncludeResolutionError"}
                   /\ UNCHANGED <<tasks, dep_chdir, stack>>
              ELSE /\ stack' = <<[tasks |-> tasks, task_idx |-> task_idx,
                                 loop_idx |-> loop_idx, chdir |-> dep_chdir]>> \o stack
                   /\ tasks' = included.tasks
                   /\ dep_chdir' = include_chdir(impl, task, dep_chdir, vars_map)
                   /\ GotoOn(IF included.tasks # <<>> THEN Pos("task", 0, <<>>, 0, 1)
                             ELSE Pos("host", 0, <<>>, 0, 0), stack')
                   /\ UNCHANGED errors
    /\ trace' = Append(trace, "include")
    /\ UNCHANGED <<impl, extra_vars, ndeps, nhosts, vars_map, register_map, ctx0, written>>

\* The included task list has ended: the engine that included it goes on
\* after the include.
ReturnFromInclude ==
    /\ pc = "return"
    /\ UNCHANGED units
    /\ LET engine == Head(stack)
       IN  /\ stack' = Tail(stack)
           /\ tasks' = engine.tasks
           /\ dep_chdir' = engine.chdir
           /\ GotoOn(end_iteration(impl, engine.tasks, engine.task_idx, engine.loop_idx),
                     Tail(stack))
    /\ last' = [step |-> "return"]
    /\ UNCHANGED <<impl, extra_vars, ndeps, nhosts, vars_map, register_map, errors, trace,
                   ctx0, written>>

Next ==
    \/ LoadExtraVars
    \/ StartDeployment
    \/ Finish
    \/ EndHosts
    \/ MissingHost
    \/ VisitHost
    \/ EvaluateWhen
    \/ MergeVar
    \/ BindItem
    \/ Debug
    \/ RunCommand
    \/ IncludeTasks
    \/ ReturnFromInclude

Spec == Init /\ [][Next]_vars

\* The runs in which the driver is linked with src/modules.
InitModules == Init /\ impl = "modules"
SpecModules == InitModules /\ [][Next]_vars

TypeOK ==
    /\ pc \in {"args", "deployment", "host", "task", "vars", "loop", "debug", "shell",
               "command", "include", "return", "done"}
    /\ Len(stack) <= 1
    /\ (pc = "return") => stack # <<>>
    /\ (pc = "done") = IsSome(exit_code)
    /\ ndeps \in 0..MaxDeployments
    /\ nhosts \in 0..MaxHosts

(***************************************************************************)
(* execute_ssh_command, step by step: the loop that reads the two streams  *)
(* of a channel while the remote command writes to them.  One chunk is     *)
(* what one write sends and one read takes.                                *)
(***************************************************************************)
\* The chunks a channel queues unread, both streams together, before the
\* remote command has to wait for the reader (the flow-control window).
Window == 2

\* The writes of a remote command, in order: each goes to stdout or stderr.
MaxWrites == Window + 2
Scripts == UNION {[1..n -> {"out", "err"}] : n \in 0..MaxWrites}

\* session.set_blocking(true)
blocking == TRUE

\* What a read of a stream with the given number of queued chunks does.
channel_read(is_blocking, queued, eof) ==
    IF queued > 0 THEN "data"
    ELSE IF eof THEN "zero"
    ELSE IF is_blocking THEN "wait"
    ELSE "would_block"

\* channel.eof(): the remote side has signalled the end and nothing is queued.
channel_eof(ch) == ch.eof /\ ch.out = 0 /\ ch.err = 0

\* session.channel_session() and channel.exec(...)
ChannelExec ==
    /\ input # None
    /\ Unwrap(input).fn = "execute_ssh_command"
    /\ channel = None
    /\ output = None
    /\ channel' = Some([script |-> Unwrap(input).script, out |-> 0, err |-> 0, eof |-> FALSE,
                        at |-> "stdout", stdout |-> 0, stderr |-> 0])
    /\ UNCHANGED <<input, output>>
    /\ UNCHANGED driver

\* The remote command writes its next chunk, if the window has room for it.
RemoteWrite ==
    /\ channel # None
    /\ LET ch == Unwrap(channel)
       IN  /\ ch.script # <<>>
           /\ ch.out + ch.err < Window
           /\ channel' = Some([ch EXCEPT !.script = Tail(@),
                                         !.out = IF Head(ch.script) = "out" THEN @ + 1 ELSE @,
                                         !.err = IF Head(ch.script) = "err" THEN @ + 1 ELSE @])
    /\ UNCHANGED <<input, output>>
    /\ UNCHANGED driver

\* The remote command has written everything: it signals the end of the streams.
RemoteEof ==
    /\ channel # None
    /\ LET ch == Unwrap(channel)
       IN  /\ ch.script = <<>>
           /\ ~ch.eof
           /\ channel' = Some([ch EXCEPT !.eof = TRUE])
    /\ UNCHANGED <<input, output>>
    /\ UNCHANGED driver

\* match channel.read(&mut stdout_buffer)
ReadStdout ==
    /\ channel # None
    /\ LET ch == Unwrap(channel)
           read == channel_read(blocking, ch.out, ch.eof)
       IN  /\ ch.at = "stdout"
           /\ read # "wait"
           /\ channel' = Some(IF read = "data"
                              THEN [ch EXCEPT !.out = @ - 1, !.stdout = @ + 1, !.at = "stderr"]
                              ELSE [ch EXCEPT !.at = "stderr"])
    /\ UNCHANGED <<input, output>>
    /\ UNCHANGED driver

\* match channel.stderr().read(&mut stderr_buffer)
ReadStderr ==
    /\ channel # None
    /\ LET ch == Unwrap(channel)
           read == channel_read(blocking, ch.err, ch.eof)
       IN  /\ ch.at = "stderr"
           /\ read # "wait"
           /\ channel' = Some(IF read = "data"
                              THEN [ch EXCEPT !.err = @ - 1, !.stderr = @ + 1, !.at = "eof"]
                              ELSE [ch EXCEPT !.at = "eof"])
    /\ UNCHANGED <<input, output>>
    /\ UNCHANGED driver

\* if channel.eof() { break; }
CheckEof ==
    /\ channel # None
    /\ LET ch == Unwrap(channel)
       IN  /\ ch.at = "eof"
           /\ channel' = Some([ch EXCEPT !.at = IF channel_eof(ch) THEN "close" ELSE "stdout"])
    /\ UNCHANGED <<input, output>>
    /\ UNCHANGED driver

\* channel.wait_close(), channel.exit_status() and the result.
ChannelReturn ==
    /\ channel # None
    /\ Unwrap(channel).at = "close"
    /\ output = None
    /\ output' = Some([stdout |-> Unwrap(channel).stdout, stderr |-> Unwrap(channel).stderr])
    /\ channel' = Some([Unwrap(channel) EXCEPT !.at = "returned"])
    /\ UNCHANGED input
    /\ UNCHANGED driver

NextChannel ==
    \/ ChannelExec
    \/ RemoteWrite
    \/ RemoteEof
    \/ ReadStdout
    \/ ReadStderr
    \/ CheckEof
    \/ ChannelReturn

\* One remote command, with any script of writes.
InitChannel ==
    /\ InitDriver
    /\ impl = "modules"
    /\ extra_vars = None
    /\ input \in {Some([fn |-> "execute_ssh_command", script |-> sc]) : sc \in Scripts}
    /\ output = None
    /\ channel = None

SpecChannel == InitChannel /\ [][NextChannel]_vars

(***************************************************************************)
(* execute_local_command on its own: a child that writes any lines to its  *)
(* two streams.                                                            *)
(***************************************************************************)
MaxLines == 3

\* The lines a child may write to a stream: each is empty or "h".
LineSeqs == UNION {[1..n -> {<<>>, <<"h">>}] : n \in 0..MaxLines}

\* The bytes of a stream to which the given lines are written.
RECURSIVE child_bytes(_)
child_bytes(ls) ==
    IF ls = <<>> THEN <<>> ELSE Head(ls) \o <<"\n">> \o child_bytes(Tail(ls))

\* The local executor runs the child of the input.
LocalCommand ==
    /\ input # None
    /\ Unwrap(input).fn = "execute_local_command"
    /\ output = None
    /\ LET in == Unwrap(input)
       IN  output' = Some(execute_local_command(<<"cat">>, TRUE, in.display_output, None,
                              Proc(TRUE, child_bytes(in.out), child_bytes(in.err), 0, FALSE)))
    /\ UNCHANGED <<input, channel>>
    /\ UNCHANGED driver

NextLocal == LocalCommand

InitLocal ==
    /\ InitDriver
    /\ impl = "modules"
    /\ extra_vars = None
    /\ input \in {Some([fn |-> "execute_local_command", out |-> o, err |-> e,
                        display_output |-> d]) :
                     o \in LineSeqs, e \in LineSeqs, d \in BOOLEAN}
    /\ output = None
    /\ channel = None

SpecLocal == InitLocal /\ [][NextLocal]_vars

(***************************************************************************)
(* execute_local_command, step by step: the child writes to its two pipes  *)
(* while the executor reads all of stdout and then all of stderr.  One     *)
(* chunk is what one write puts into a pipe and one read takes out of it.  *)
(***************************************************************************)
\* The chunks a pipe holds unread before a write to it has to wait.
PipeCapacity == 2

\* cmd.spawn(): the child starts with both pipes empty.
LocalSpawn ==
    /\ input # None
    /\ Unwrap(input).fn = "spawn"
    /\ channel = None
    /\ output = None
    /\ channel' = Some([script |-> Unwrap(input).script, out |-> 0, err |-> 0,
                        exited |-> FALSE, at |-> "stdout", stdout |-> 0, stderr |-> 0])
    /\ UNCHANGED <<input, output>>
    /\ UNCHANGED driver

\* The child writes its next chunk, if the pipe has room for it, or, having
\* written everything, exits, which closes both pipes.
ChildStep ==
    /\ input # None
    /\ Unwrap(input).fn = "spawn"
    /\ channel # None
    /\ LET ch == Unwrap(channel)
       IN  /\ ~ch.exited
           /\ IF ch.script = <<>> THEN channel' = Some([ch EXCEPT !.exited = TRUE])
              ELSE /\ (IF Head(ch.script) = "out" THEN ch.out ELSE ch.err) < PipeCapacity
                   /\ channel' =
                        Some([ch EXCEPT !.script = Tail(@),
                                        !.out = IF Head(ch.script) = "out" THEN @ + 1 ELSE @,
                                        !.err = IF Head(ch.script) = "err" THEN @ + 1 ELSE @])
    /\ UNCHANGED <<input, output>>
    /\ UNCHANGED driver

\* "for line in stdout_reader" and then "for line in stderr_reader": a read
\* takes a chunk, or, at the end of the stream, ends the loop; on an empty
\* pipe that is still open it waits.
ReadLines ==
    /\ input # None
    /\ Unwrap(input).fn = "spawn"
    /\ channel # None
    /\ LET ch == Unwrap(channel)
       IN  \/ /\ ch.at = "stdout"
              /\ ch.out > 0 \/ ch.exited
              /\ channel' = Some(IF ch.out > 0
                                 THEN [ch EXCEPT !.out = @ - 1, !.stdout = @ + 1]
                                 ELSE [ch EXCEPT !.at = "stderr"])
           \/ /\ ch.at = "stderr"
              /\ ch.err > 0 \/ ch.exited
              /\ channel' = Some(IF ch.err > 0
                                 THEN [ch EXCEPT !.err = @ - 1, !.stderr = @ + 1]
                                 ELSE [ch EXCEPT !.at = "wait"])
    /\ UNCHANGED <<input, output>>
    /\ UNCHANGED driver

\* child.wait() and the result.
LocalWait ==
    /\ input # None
    /\ Unwrap(input).fn = "spawn"
    /\ channel # None
    /\ Unwrap(channel).at = "wait"
    /\ Unwrap(channel).exited
    /\ output = None
    /\ output' = Some([stdout |-> Unwrap(channel).stdout, stderr |-> Unwrap(channel).stderr])
    /\ channel' = Some([Unwrap(channel) EXCEPT !.at = "returned"])
    /\ UNCHANGED input
    /\ UNCHANGED driver

NextPipes ==
    \/ LocalSpawn
    \/ ChildStep
    \/ ReadLines
    \/ LocalWait

\* One local command, with any script of writes.
InitPipes ==
    /\ InitDriver
    /\ impl = "modules"
    /\ extra_vars = None
    /\ input \in {Some([fn |-> "spawn", script |-> sc]) : sc \in Scripts}
    /\ output = None
    /\ channel = None

SpecPipes == InitPipes /\ [][NextPipes]_vars

(***************************************************************************)
(* split_commands on its own: lines joined by a trailing backslash and a   *)
(* newline are split, and the result is split again.                       *)
(***************************************************************************)
MaxJoined == 3

\* The lines that are joined: the first four are not empty, begin and end
\* with no whitespace and do not end in a backslash.
CommandLines ==
    {<<"a">>, <<"a", " ", "b">>, <<"\\", "a">>, <<"a", "\\", "b">>,
     <<"a", "\\">>, <<" ", "a">>, <<>>}
CommandLineSeqs == UNION {[1..n -> CommandLines] : n \in 1..MaxJoined}

\* l1 \ newline l2 \ newline ... ln
RECURSIVE backslash_join(_)
backslash_join(ls) ==
    IF Len(ls) = 1 THEN Head(ls)
    ELSE Head(ls) \o <<"\\", "\n">> \o backslash_join(Tail(ls))

\* split_commands is applied to the joined text.
SplitJoined ==
    /\ input # None
    /\ Unwrap(input).fn = "split_commands"
    /\ output = None
    /\ output' = Some([commands |-> split_commands(backslash_join(Unwrap(input).lines)),
                       again |-> None, result |-> None])
    /\ UNCHANGED <<input, channel>>
    /\ UNCHANGED driver

\* split_commands is applied to the one command it has returned.
SplitAgain ==
    /\ input # None
    /\ Unwrap(input).fn = "split_commands"
    /\ output # None
    /\ Len(Unwrap(output).commands) = 1
    /\ Unwrap(output).again = None
    /\ output' = Some([Unwrap(output) EXCEPT
                          !.again = Some(split_commands(Unwrap(output).commands[1]))])
    /\ UNCHANGED <<input, channel>>
    /\ UNCHANGED driver

\* The first command split_commands has returned is executed on localhost
\* without the shell, as a command of task.command is.
ExecuteSplit ==
    /\ input # None
    /\ Unwrap(input).fn = "split_commands"
    /\ output # None
    /\ Unwrap(output).commands # <<>>
    /\ Unwrap(output).result = None
    /\ \E proc \in Procs(TRUE) :
         output' = Some([Unwrap(output) EXCEPT
                            !.result = Some(execute_local_command(
                                           Unwrap(output).commands[1], FALSE, TRUE, None,
                                           proc))])
    /\ UNCHANGED <<input, channel>>
    /\ UNCHANGED driver

NextSplit ==
    \/ SplitJoined
    \/ SplitAgain
    \/ ExecuteSplit

InitSplit ==
    /\ InitDriver
    /\ impl = "modules"
    /\ extra_vars = None
    /\ input \in {Some([fn |-> "split_commands", lines |-> ls]) : ls \in CommandLineSeqs}
    /\ output = None
    /\ channel = None

SpecSplit == InitSplit /\ [][NextSplit]_vars

(***************************************************************************)
(* A vars value that applies from_json to a string literal, and a later    *)
(* template that reads a field of the stored value.                        *)
(***************************************************************************)
JsonScalars == {"0", "1", "2", "null", "true", "false", "\"a\"", "\"k\"", "\"x\""}

\* JSON texts: scalars and objects of one key, with and without a blank
\* after the colon; the last two are not JSON.
JsonTexts ==
    {<<sc>> : sc \in JsonScalars}
      \cup {<<"{", "}">>}
      \cup {<<"{", key, ":", sc, "}">> : key \in DOMAIN JsonStrings, sc \in JsonScalars}
      \cup {<<"{", "\"k\"", ":", " ", sc, "}">> : sc \in JsonScalars}
      \cup {<<"{">>, <<"{", "\"k\"", "}">>}

\* {{ 'j' | from_json }}
from_json_template(j) == <<LiteralOpen>> \o j \o <<LiteralClose>>

\* The source text of a vars value that renders to j: the text j through the
\* filter, the text j as it is, or the text j followed by the word from_json.
vars_template(form, j) ==
    CASE form = "filter" -> from_json_template(j)
      [] form = "plain" -> j
      [] form = "word" -> j \o <<" ", "from_json">>

\* The vars entry y is evaluated and inserted into the (empty) context; a
\* value that does not parse ends the process.
MergeJsonVar ==
    /\ input # None
    /\ Unwrap(input).fn = "replace_placeholders_vars"
    /\ output = None
    /\ LET msg == vars_template(Unwrap(input).form, Unwrap(input).json)
           value == IF impl = "main"
                    THEN main_replace_placeholders_vars(msg, EmptyMap, EmptyMap)
                    ELSE replace_placeholders_vars(msg, EmptyMap)
       IN  output' = Some([exited |-> ~value.ok,
                           context |-> IF value.ok THEN Insert(EmptyMap, "y", value.v)
                                       ELSE EmptyMap,
                           read |-> None])
    /\ UNCHANGED <<input, channel>>
    /\ UNCHANGED driver

\* A later template reads the field k of y.
ReadField ==
    /\ input # None
    /\ Unwrap(input).fn = "replace_placeholders_vars"
    /\ output # None
    /\ ~Unwrap(output).exited
    /\ Unwrap(output).read = None
    /\ LET ctx == Unwrap(output).context
           text == IF impl = "main"
                   THEN main_replace_placeholders(<<"{{y.k}}">>, EmptyMap, ctx)
                   ELSE replace_placeholders(<<"{{y.k}}">>, ctx)
       IN  output' = Some([Unwrap(output) EXCEPT !.read = Some(text)])
    /\ UNCHANGED <<input, channel>>
    /\ UNCHANGED driver

NextJson ==
    \/ MergeJsonVar
    \/ ReadField

InitJson ==
    /\ InitDriver
    /\ extra_vars = None
    /\ input \in {Some([fn |-> "replace_placeholders_vars", form |-> f, json |-> j]) :
                    f \in {"filter", "plain", "word"}, j \in JsonTexts}
    /\ output = None
    /\ channel = None

SpecJson == InitJson /\ [][NextJson]_vars

(***************************************************************************)
(* Properties.                                                             *)
(***************************************************************************)
CurrentTask == tasks[task_idx]
TaskAt(i) == tasks[i]
InTask == pc \in {"task", "vars", "loop", "debug", "shell", "command"}
Failure(code) == code # None /\ code # Some(0)

\* C1: fail-fast.  Once an executed command (local or remote) has returned a
\* non-zero exit code, -1 of a signal-killed local child included, the process
\* has ended with a non-zero exit code and no command is executed any more.
C1_FailFast ==
    /\ []("NonZeroExit" \in errors => pc = "done" /\ Failure(exit_code))
    /\ [][("NonZeroExit" \in errors) => last'.step # "exec"]_vars

\* A signal-killed local child has ended the run while a further deployment
\* was still to come.
C1_Witness ==
    /\ last.step = "exec"
    /\ last.result.kind = "ok"
    /\ last.result.exit_status = -1
    /\ pc = "done"
    /\ ndeps < MaxDeployments

\* The names a template reads from the context.
Names(msg) ==
    IF msg # <<>> /\ Head(msg) = "{% if"
    THEN {Paths[msg[i]][1] : i \in {j \in 2..(IndexOf(msg, "%}") - 1) : msg[j] \in DOMAIN Paths}}
    ELSE {Paths[msg[i]][1] : i \in {j \in 1..Len(msg) : msg[j] \in Exprs}}

\* The template the next step renders, if any.
Pending ==
    CASE pc = "task" ->
            IF IsSome(CurrentTask.when) THEN Some(when_template(Unwrap(CurrentTask.when)))
            ELSE None
      [] pc = "vars" -> Some(CurrentTask.vars[idx].value)
      [] pc = "debug" -> Some(CurrentTask.debug[idx].value)
      [] pc \in {"shell", "command"} -> Some(Head(commands))
      [] OTHER -> None

RefsAbsent == IsSome(Pending) /\ \E n \in Names(Unwrap(Pending)) : n \notin DOMAIN Context

BadJson ==
    /\ pc = "vars"
    /\ contains_from_json(CurrentTask.vars[idx].value)
    /\ render(CurrentTask.vars[idx].value, Context).ok
    /\ ~from_str(render(CurrentTask.vars[idx].value, Context).s).ok

TemplateErrors == {"UndefinedVariable", "InvalidJson"}

C3_MissingHostRecoverable ==
    /\ [][(pc = "host" /\ nhosts' = nhosts + 1 /\ last'.host \notin DOMAIN Inventory) =>
            /\ pc' = "host"
            /\ exit_code' = None
            /\ vars_map' = vars_map
            /\ register_map' = register_map
            /\ trace' = <<>>]_vars
    /\ [][(InTask /\ last'.step = "exec") => errors \subseteq {"MissingHostConfig"}]_vars

\* After a missing host, a command has run on the next host of the deployment.
C3_Witness ==
    /\ "MissingHostConfig" \in errors
    /\ last.step = "exec"
    /\ last.result.kind = "ok"
    /\ last.result.exit_status = 0
    /\ ndeps = 1
    /\ nhosts = 2

\* The name of the task that begins renders, so that its when is evaluated.
NameRenders == task_name(impl, CurrentTask.name, vars_map).ok

WhenFalse ==
    /\ pc = "task"
    /\ NameRenders
    /\ IsSome(CurrentTask.when)
    /\ render(when_template(Unwrap(CurrentTask.when)), Context) = [ok |-> TRUE, s |-> <<"false">>]

\* C4: a task whose when renders to exactly "false" is skipped without side
\* effects: the context is unchanged and the driver is at the next task (or
\* past the last one) without any step of the task; a task without when
\* always runs.
C4_WhenFalseSkips ==
    [][/\ WhenFalse =>
            /\ vars_map' = vars_map
            /\ register_map' = register_map
            /\ pc' \in {"task", "host"}
            /\ (pc' = "task" => task_idx' = task_idx + 1)
            /\ trace' = <<"when">>
       /\ (pc = "task" /\ NameRenders /\ ~IsSome(CurrentTask.when)) =>
            /\ pc' \in {"vars", "loop", "debug", "shell", "command"}
            /\ task_idx' = task_idx]_vars

\* A task has been skipped and the next task of the list is about to begin.
C4_Witness ==
    /\ last.step = "when"
    /\ last.ok
    /\ ~last.run
    /\ pc = "task"
    /\ task_idx = 2

\* A step of a task has been taken.
TaskStep == InTask /\ trace' # trace

\* C5: when a command of a task with register R completes with exit code 0,
\* the context maps R to the object whose stdout, stderr and rc are the
\* captured output and the exit code of that execution, and every other key
\* of the context is bound as before.
C5_RegisterWrite ==
    [][(TaskStep /\ last'.step = "exec" /\ last'.result.kind = "ok"
          /\ last'.result.exit_status = 0 /\ IsSome(CurrentTask.register)) =>
        LET R == Unwrap(CurrentTask.register)
            res == last'.result
        IN  /\ R \in DOMAIN vars_map'
            /\ vars_map'[R] = Map(("stdout" :> Str(res.stdout)) @@
                                  ("stderr" :> Str(res.stderr)) @@
                                  ("rc" :> Num(res.exit_status)))
            /\ lookup(<<R, "stdout">>, vars_map').v = Str(res.stdout)
            /\ (DOMAIN vars_map') \ {R} = (DOMAIN vars_map) \ {R}
            /\ \A k \in (DOMAIN vars_map) \ {R} : vars_map'[k] = vars_map[k]]_vars

\* A remote command has been captured under r next to the variable x.
C5_Witness ==
    /\ impl = "modules"
    /\ last.step = "exec"
    /\ ~last.local
    /\ ~last.display_output
    /\ "x" \in DOMAIN vars_map
    /\ "r" \in DOMAIN vars_map
    /\ vars_map["r"] = Map(("stdout" :> Str(<<"h", "\n">>)) @@
                           ("stderr" :> Str(<<"e", "\n">>)) @@ ("rc" :> Num(0)))

\* The position of a step in the body of a task.
Rank == ("when" :> 0) @@ ("var" :> 1) @@ ("item" :> 2) @@ ("debug" :> 3) @@
        ("shell" :> 4) @@ ("command" :> 5)

\* The steps taken since the body of the task was entered last.
RECURSIVE Pass(_)
Pass(t) ==
    IF t = <<>> \/ t[Len(t)] \in {"when", "var", "item"} THEN <<>>
    ELSE Append(Pass(SubSeq(t, 1, Len(t) - 1)), t[Len(t)])

Count(t, step) == Len(SelectSeq(t, LAMBDA e : e = step))

ContextOf(vm) == IF impl = "main" THEN main_context(register_map, vm) ELSE vm

\* The vars after the first k assignments of the vars of a task, begun on vm.
RECURSIVE Merged(_, _, _)
Merged(vm, task_vars, k) ==
    IF k = 0 THEN vm
    ELSE LET before == Merged(vm, task_vars, k - 1)
             value == task_vars[k].value
         IN  Insert(before, task_vars[k].key,
                    coerce(value, render(value, ContextOf(before))).v)

\* C7: the vars of a task are merged one after the other in the order of the
\* mapping: the value of the k-th key is rendered against the context that
\* holds the values given to the keys 1..k-1 of the same mapping, not against
\* the context as it was when the merge began.
C7_SequentialMerge ==
    /\ [](pc = "vars" => vars_map = Merged(ctx0, CurrentTask.vars, idx - 1))
    /\ [][(pc = "vars" /\ trace' # trace /\ last'.ok) =>
            /\ vars_map' = Merged(ctx0, CurrentTask.vars, idx)
            /\ (CurrentTask.name = <<"set">> /\ idx = 2) => vars_map'["y"] = Str(<<"a">>)]_vars

\* y has been given the value x got in the same mapping, not the value of the
\* command line.
C7_Witness ==
    /\ IsSome(extra_vars)
    /\ last.step = "var"
    /\ last.key = "y"
    /\ last.ok
    /\ vars_map["x"] = Str(<<"a">>)
    /\ vars_map["y"] = Str(<<"a">>)

\* The variables each --extra-vars argument supplies.
ExpectedCli ==
    IF extra_vars = None THEN EmptyMap
    ELSE IF extra_vars = Some(<<"x", "=", "1">>) THEN ("x" :> Str(<<"1">>))
    ELSE ("y" :> Num(2))

\* C8: the variables of the command line are in the context from before the
\* first task on, and they have the lowest precedence: once a var of a task
\* has been assigned to such a key, every lookup of the key yields the value
\* assigned last, in the same task and in the later ones.
C8_CliLowestPrecedence ==
    (pc \notin {"args", "done"}) =>
        \A k \in DOMAIN ExpectedCli :
            /\ k \in DOMAIN Context
            /\ k \in DOMAIN written
            /\ written[k].src = "cli" => lookup(<<k>>, Context).v = ExpectedCli[k]
            /\ written[k].src = "var" => lookup(<<k>>, Context).v = written[k].val

\* A later task has rendered x, given on the command line and assigned by a
\* var of an earlier task, to the value the var assigned.
C8_Witness ==
    /\ IsSome(extra_vars)
    /\ "x" \in DOMAIN written
    /\ written["x"].src = "var"
    /\ last.step = "exec"
    /\ last.command = <<"echo", " ", "a">>
    /\ Count(trace, "var") = 0

\* The binding of item, if any.
ItemBinding == IF "item" \in DOMAIN vars_map THEN Some(vars_map["item"]) ELSE None

\* The body of a task with a loop is running for the loop value LoopValue.
InIteration == pc \in {"debug", "shell", "command"} /\ IsSome(CurrentTask.loop)
LoopValue == Unwrap(CurrentTask.loop)[loop_idx]

\* The task whose last step has just been taken ends normally.
TaskEnds == /\ pc \in {"loop", "debug", "shell", "command"}
            /\ trace' # trace
            /\ pc' \in {"task", "host"}

\* C9 as stated: during iteration i of a loop, item is bound to the i-th loop
\* value, whatever the value is, and when the next task begins item is bound
\* to the last value of the loop that has run.
C9_AsStated ==
    /\ InIteration => ItemBinding = Some(LoopValue)
    /\ (pc = "task" /\ task_idx > 1 /\ IsSome(tasks[task_idx - 1].loop)
          /\ Count(trace, "item") = Len(Unwrap(tasks[task_idx - 1].loop))) =>
            LET loop == Unwrap(tasks[task_idx - 1].loop)
            IN  ItemBinding = Some(loop[Len(loop)])

\* C9, amended: the body of a task with a loop of n values runs n times in
\* the order of the loop; during iteration i, item is bound to the i-th value
\* and a template that reads item renders it, if the value is not null, and
\* item is unbound if it is null; the binding of item changes only where the
\* body of a task begins an iteration, so after the task it is as the last
\* iteration left it until the body of a later task begins.
C9_Loop ==
    /\ [](InIteration =>
            /\ Count(trace, "item") = loop_idx
            /\ ItemBinding = IF LoopValue # Null THEN Some(LoopValue) ELSE None)
    /\ [][(pc = "loop" /\ trace' # trace) =>
            /\ last'.item = loop_items(CurrentTask)[loop_idx]
            /\ Count(trace', "item") = loop_idx
            /\ loop_idx = 1 \/ Pass(trace) # <<>>]_vars
    /\ [][(InIteration /\ LoopValue # Null /\ trace' # trace) =>
            /\ (pc = "debug" /\ CurrentTask.debug[idx].value = <<"{{item}}">>) =>
                   last'.ok /\ last'.text = <<ToString(LoopValue.n)>>
            /\ (pc = "shell" /\ Head(commands) = <<"echo", " ", "{{item}}">>) =>
                   last'.step = "exec" /\ last'.command = <<"echo", " ", ToString(LoopValue.n)>>]_vars
    /\ [][TaskEnds =>
            LET n == Len(loop_items(CurrentTask))
            IN  /\ loop_idx = n
                /\ Count(trace', "item") = n
                /\ Count(trace', "debug") = n * Len(CurrentTask.debug)
                /\ IsSome(CurrentTask.shell) =>
                     Count(trace', "shell") = n * Len(split_commands(Unwrap(CurrentTask.shell)))
                /\ IsSome(CurrentTask.command) =>
                     Count(trace', "command") =
                         n * Len(split_commands(Unwrap(CurrentTask.command)))]_vars
    /\ [][pc # "loop" => ItemBinding' = ItemBinding]_vars

\* The loop over 1 and 2 has run its second command, and the next task begins
\* with item bound to 2.
C9_Witness ==
    /\ pc = "task"
    /\ task_idx = 2
    /\ tasks[1].name = <<"each">>
    /\ trace = <<"when", "item", "debug", "shell", "item", "debug", "shell">>
    /\ last.step = "exec"
    /\ last.command = <<"echo", " ", "2">>
    /\ ItemBinding = Some(Num(2))

\* C10: a process that writes the same bytes to stdout and to stderr and
\* exits with the same status gives the same (stdout, stderr, exit code),
\* whether the local or the remote executor has run it.
C10_ExecutorsAgree ==
    (last.step = "exec" /\ last.proc.spawn /\ ~last.proc.signaled
       /\ last.result.kind = "ok") =>
        triple(execute_local_command(last.command, last.use_shell, last.display_output,
                                     last.chdir, last.proc))
            = triple(execute_ssh_command(last.session, last.command, last.use_shell,
                                         last.display_output, last.chdir, last.proc))

\* The executor waits in a read of one stream while the remote command waits
\* for room to write to the other.
Stalled ==
    /\ channel # None
    /\ LET ch == Unwrap(channel)
       IN  /\ ch.script # <<>>
           /\ ch.out + ch.err >= Window
           /\ \/ /\ ch.at = "stdout"
                 /\ channel_read(blocking, ch.out, ch.eof) = "wait"
                 /\ Head(ch.script) = "err"
              \/ /\ ch.at = "stderr"
                 /\ channel_read(blocking, ch.err, ch.eof) = "wait"
                 /\ Head(ch.script) = "out"

\* C11: while a remote command runs, the executor never waits on one stream
\* while the command is held up writing the other, and the loop always has a
\* step to take until the command has signalled the end and the executor has
\* returned.
C11_NeverStalls ==
    /\ ~Stalled
    /\ (channel # None /\ Unwrap(channel).at # "returned") => ENABLED NextChannel

\* The lines joined by single newlines, without a trailing newline.
RECURSIVE JoinLines(_)
JoinLines(ls) ==
    IF ls = <<>> THEN <<>>
    ELSE IF Len(ls) = 1 THEN Head(ls)
    ELSE Head(ls) \o <<"\n">> \o JoinLines(Tail(ls))

\* C12: the stdout and the stderr the local executor returns are the lines the
\* child wrote to that stream, in order, joined by single newlines without a
\* trailing newline, for every sequence of lines, and they are the same with
\* and without display_output.
C12_LocalJoinsLines ==
    (input # None /\ Unwrap(input).fn = "execute_local_command" /\ output # None) =>
        LET in == Unwrap(input)
            result == Unwrap(output)
        IN  /\ result.stdout = JoinLines(in.out)
            /\ result.stderr = JoinLines(in.err)
            /\ triple(result) =
                 triple(execute_local_command(<<"cat">>, TRUE, ~in.display_output, None,
                            Proc(TRUE, child_bytes(in.out), child_bytes(in.err), 0, FALSE)))

\* A line that is not empty, begins and ends with no whitespace and does not
\* end in a backslash.
PlainLine(l) ==
    /\ l # <<>>
    /\ ~IsWhitespace(l[1])
    /\ ~IsWhitespace(l[Len(l)])
    /\ l[Len(l)] # "\\"

\* l1 ' ' l2 ' ' ... ' ' ln
RECURSIVE space_join(_)
space_join(ls) ==
    IF Len(ls) = 1 THEN Head(ls) ELSE Head(ls) \o <<" ">> \o space_join(Tail(ls))

\* C13: for lines l1..ln that are not empty, carry no leading or trailing
\* whitespace and do not end in a backslash, split_commands of the text in
\* which each of l1..l(n-1) is followed by a backslash and a newline returns
\* the one command l1 ' ' l2 ' ' ... ' ' ln, and split_commands of that command
\* returns it unchanged.
C13_SplitJoined ==
    (input # None /\ Unwrap(input).fn = "split_commands" /\ output # None
       /\ \A i \in 1..Len(Unwrap(input).lines) : PlainLine(Unwrap(input).lines[i])) =>
        LET joined == space_join(Unwrap(input).lines)
        IN  /\ Unwrap(output).commands = <<joined>>
            /\ Unwrap(output).again # None => Unwrap(Unwrap(output).again) = <<joined>>

\* Three lines, one with a blank and one with a backslash inside, have been
\* joined, split and split again.
C13_Witness ==
    /\ input = Some([fn |-> "split_commands",
                     lines |-> << <<"a", " ", "b">>, <<"a", "\\", "b">>, <<"a">> >>])
    /\ output # None
    /\ Unwrap(output).again =
         Some(<< <<"a", " ", "b", " ", "a", "\\", "b", " ", "a">> >>)

\* C14: for every JSON text j, merging a vars value whose template applies
\* from_json to the literal string j stores the value that parsing j gives,
\* and a later template that reads a field of that value gets the text of the
\* field.
C14_FromJsonRoundTrip ==
    (input # None /\ Unwrap(input).fn = "replace_placeholders_vars" /\ output # None
       /\ Unwrap(input).form = "filter" /\ from_str(Unwrap(input).json).ok) =>
        LET parsed == from_str(Unwrap(input).json).v
            out == Unwrap(output)
        IN  /\ ~out.exited
            /\ out.context = ("y" :> parsed)
            /\ (out.read # None /\ parsed.t = "map" /\ "k" \in DOMAIN parsed.m) =>
                  Unwrap(out.read) = [ok |-> TRUE, s |-> value_text(parsed.m["k"])]

\* The text {"k": 1} has been stored as an object and its field k has been
\* read as 1.
C14_Witness ==
    /\ input = Some([fn |-> "replace_placeholders_vars", form |-> "filter",
                     json |-> <<"{", "\"k\"", ":", " ", "1", "}">>])
    /\ output # None
    /\ Unwrap(output).context = ("y" :> Map("k" :> Num(1)))
    /\ Unwrap(output).read = Some([ok |-> TRUE, s |-> <<"1">>])

\* C15: a remote host whose inventory entry gives no port is connected on
\* port 22 and its tasks are run: the absence of a port never ends the run.
C15_PortDefaults == "MissingPort" \notin errors

\* The hosts of the inventory that are not localhost.
RemoteHosts == {h \in DOMAIN Inventory : Inventory[h].host # "localhost"}

\* C16: during the tasks of a remote host the session is the one opened in
\* this visit of this deployment, and during the tasks of localhost there is
\* none; every command is executed on the session of the visit; and the
\* session is replaced only where a visit begins, before its first task, or
\* where it ends.
C16_OneSessionPerVisit ==
    /\ [](InTask =>
            /\ is_localhost => session = None
            /\ ~is_localhost =>
                 \E h \in RemoteHosts :
                    session = Some([host |-> h, dep |-> ndeps, visit |-> nhosts])
            /\ last.step = "exec" => last.session = session /\ last.local = is_localhost)
    /\ [][session' # session =>
            \/ pc = "host" /\ pc' = "task" /\ task_idx' = 1 /\ trace' = <<>>
            \/ pc' = "host" /\ session' = None]_vars

\* The second command of the second remote visit of the second deployment has
\* been executed on the session of that visit.
C16_Witness ==
    /\ InTask
    /\ ndeps = 2
    /\ nhosts = 2
    /\ session = Some([host |-> "web", dep |-> 2, visit |-> 2])
    /\ last.step = "exec"
    /\ last.session = session
    /\ Count(trace, "shell") + Count(trace, "command") >= 2

\* C17: the working directory handed to the executor for a command is the
\* task's chdir if it has one, otherwise the deployment's, otherwise none, and
\* when present it is that chdir rendered against the context.
C17_ChdirRendered ==
    (last.step = "exec") =>
        LET dir == IF IsSome(TaskAt(last.task).chdir) THEN TaskAt(last.task).chdir
                   ELSE dep_chdir
        IN  last.chdir = IF dir = None THEN None
                         ELSE Some(render(Unwrap(dir), last.context).s)

\* C18: a command is executed with display_output exactly when its task has
\* no register, nothing is printed of the output of a command whose task has
\* one, and the executor hands back the same stdout, stderr and exit status
\* whether it displays the output or not.
C18_DisplayIffNoRegister ==
    (last.step = "exec") =>
        LET task == TaskAt(last.task)
            other == execute(last.local, last.session, last.command, last.use_shell,
                             ~last.display_output, last.chdir, last.proc)
        IN  /\ last.display_output = ~IsSome(task.register)
            /\ IsSome(task.register) => last.result.shown = <<>>
            /\ other.kind = last.result.kind
            /\ triple(other) = triple(last.result)

\* A command of a task with a register has written to both streams; nothing
\* of it has been printed and both strings have been captured.
C18_Witness ==
    /\ last.step = "exec"
    /\ IsSome(TaskAt(last.task).register)
    /\ ~last.display_output
    /\ last.result.kind = "ok"
    /\ last.result.stdout # <<>>
    /\ last.result.stderr # <<>>
    /\ last.result.shown = <<>>

\* C19: the name of a task is rendered against the context before its when
\* is evaluated, and a name that reads a variable the context lacks ends the
\* run: a condition is evaluated only for a task whose name has rendered, and
\* the task is announced with the rendered name.
C19_NameRenderedFirst ==
    (last.step = "when") =>
        LET rendered == render(TaskAt(last.task).name, last.context)
        IN  rendered.ok /\ last.name = rendered.s

\* The task whose include_tasks the engine is running.
Includer == Head(stack).tasks[Head(stack).task_idx]

\* C20: included tasks run on the context of the including list: beginning and
\* ending an include leaves the context as it is, so that what an included
\* task has written is what the tasks after the include read; while the
\* included tasks run, their default chdir is the effective chdir of the
\* including task, and it is the chdir of the commands of an included task
\* that has none of its own; an error in an included task ends the run with a
\* failure; and when the included list has ended the including list goes on
\* after the include.
C20_IncludeSharesContext ==
    /\ [](stack # <<>> =>
            /\ dep_chdir =
                 LET dir == effective_chdir(Includer, Head(stack).chdir)
                 IN  IF dir = None THEN None ELSE Some(render(Unwrap(dir), vars_map).s)
            /\ (last.step = "exec" /\ ~IsSome(TaskAt(last.task).chdir)) =>
                 last.chdir = dep_chdir
            /\ errors \ {"MissingHostConfig"} # {} => pc = "done" /\ Failure(exit_code))
    /\ [](\A k \in DOMAIN written :
            written[k].src \in {"var", "reg"} =>
                k \in DOMAIN vars_map /\ vars_map[k] = written[k].val)
    /\ [][(pc \in {"include", "return"}) =>
            /\ vars_map' = vars_map
            /\ written' = written
            /\ (pc = "include" /\ pc' # "done") =>
                 /\ stack' = <<[tasks |-> tasks, task_idx |-> task_idx,
                                loop_idx |-> loop_idx, chdir |-> dep_chdir]>> \o stack
                 /\ tasks' = Files[Unwrap(CurrentTask.include_tasks)]
            /\ (pc = "return") =>
                 /\ stack' = Tail(stack)
                 /\ tasks' = Head(stack).tasks
                 /\ dep_chdir' = Head(stack).chdir
                 /\ pc' \in {"task", "host"}
                 /\ (pc' = "task" => task_idx' = Head(stack).task_idx + 1)]_vars

\* The task show, which follows the including task set, has rendered the
\* output that the included task registered, and y is what the included task
\* bound it to.
C20_Witness ==
    /\ stack = <<>>
    /\ ndeps = 1
    /\ nhosts = 1
    /\ task_idx = 2
    /\ tasks[1].name = <<"set">>
    /\ tasks[2].name = <<"show">>
    /\ pc = "command"
    /\ last.step = "debug"
    /\ last.ok
    /\ last.text = <<"h", "\n">>
    /\ vars_map["y"] = Str(<<"b">>)
    /\ written["r"].src = "reg"

\* C21: the local executor returns for every child that writes a finite
\* amount to its two streams and exits: as long as it has not returned, the
\* child or the executor can take a step.
C21_LocalReturns ==
    (input # None /\ Unwrap(input).fn = "spawn" /\ channel # None
       /\ Unwrap(channel).at # "returned") => ENABLED NextPipes

\* C22: the most recent write to a key wins, whichever kind it is: a key
\* whose last write was a register resolves to the register object, and a key
\* whose last write was a vars assignment resolves to the assigned value.
C22_LastWriteWins ==
    \A k \in DOMAIN written :
        written[k].src \in {"var", "reg"} =>
            /\ k \in DOMAIN Context
            /\ lookup(<<k>>, Context).v = written[k].val
            /\ written[k].src = "reg" =>
                 lookup(<<k, "rc">>, Context) = [ok |-> TRUE, v |-> written[k].val.m["rc"]]

\* C23: the commands of a task are rendered one at a time: when a command of
\* a task with a register is about to be rendered after another command of
\* the task has been executed, that command has succeeded and the register it
\* wrote is what the register key resolves to in the context the next command
\* is rendered against.
C23_LazyRendering ==
    (pc \in {"shell", "command"} /\ last.step = "exec" /\ IsSome(CurrentTask.register)) =>
        /\ last.result.kind = "ok"
        /\ last.result.exit_status = 0
        /\ lookup(<<Unwrap(CurrentTask.register)>>, Context).v =
             to_value(Register(last.result.stdout, last.result.stderr,
                               last.result.exit_status))

\* The value the last write to key k has left in the map it went to: main.rs
\* keeps the registers in register_map, the modules keep them in vars_map.
Stored(k) ==
    IF impl = "main" /\ written[k].src = "reg"
    THEN IF k \in DOMAIN register_map THEN Some(to_value(register_map[k])) ELSE None
    ELSE IF k \in DOMAIN vars_map THEN Some(vars_map[k]) ELSE None

\* C24: the maps of the variables and of the registers are never reset: what
\* was last written under a key, from the command line, by a vars entry or by
\* a register, on whichever host of whichever deployment, is still bound to
\* that key with the same value; and the steps that pass from one host or
\* deployment to the next change neither map.
C24_ContextNeverReset ==
    /\ [](\A k \in DOMAIN written : Stored(k) = Some(written[k].val))
    /\ [][(pc \in {"deployment", "host"}) =>
            (vars_map' = vars_map /\ register_map' = register_map)]_vars

\* The tasks of the first host of the second deployment begin, and a variable
\* and a register written in the first deployment are still bound.
C24_Witness ==
    /\ impl = "main"
    /\ ndeps = 2 /\ nhosts = 1
    /\ pc = "task" /\ last.step = "host"
    /\ \E k \in DOMAIN written : written[k].src = "var" /\ k \in DOMAIN vars_map
    /\ \E k \in DOMAIN written : written[k].src = "reg" /\ k \in DOMAIN register_map

\* C25: every register in the context has rc 0: a key whose last write was a
\* register is bound to an object whose rc is 0; and a command that ends with
\* a status other than 0 ends the run with both maps as they were, so the key
\* of the task's register keeps the value it had.
C25_RegisterRcZero ==
    /\ [](\A k \in DOMAIN written :
            written[k].src = "reg" =>
                /\ Stored(k) # None
                /\ Unwrap(Stored(k)).t = "map"
                /\ Unwrap(Stored(k)).m["rc"] = Num(0))
    /\ [][(pc \in {"shell", "command"} /\ last'.step = "exec" /\ last'.result.kind = "ok"
             /\ last'.result.exit_status # 0) =>
            (pc' = "done" /\ vars_map' = vars_map /\ register_map' = register_map)]_vars

\* A command of a task with a register has ended with a status other than 0
\* while the key of the register holds the register of an earlier command.
C25_Witness ==
    /\ pc = "done"
    /\ last.step = "exec"
    /\ last.result.kind = "ok"
    /\ last.result.exit_status # 0
    /\ IsSome(tasks[last.task].register)
    /\ Unwrap(tasks[last.task].register) \in DOMAIN written
    /\ written[Unwrap(tasks[last.task].register)].src = "reg"

\* C26: in a task with shell and command, when the first command of
\* task.command is about to run every command of task.shell has run, and no
\* shell command runs after a command command; the shell commands are handed
\* to the executor with use_shell set, the command commands without it; and
\* after every successful command of a task with a register the key of the
\* register holds the result of that command, so that after the task it holds
\* the result of the last command executed.
C26_ShellThenCommand ==
    /\ (pc = "command" /\ IsSome(CurrentTask.shell)) =>
          Count(Pass(trace), "shell") = Len(split_commands(Unwrap(CurrentTask.shell)))
    /\ InTask =>
          \A i, j \in 1..Len(Pass(trace)) :
              (Pass(trace)[i] = "command" /\ Pass(trace)[j] = "shell") => j < i
    /\ last.step = "exec" =>
          /\ trace # <<>>
          /\ last.use_shell <=> (trace[Len(trace)] = "shell")
          /\ ~last.use_shell <=> (trace[Len(trace)] = "command")
    /\ (last.step = "exec" /\ last.result.kind = "ok" /\ last.result.exit_status = 0
          /\ IsSome(tasks[last.task].register)) =>
          LET R == Unwrap(tasks[last.task].register)
          IN  /\ R \in DOMAIN written
              /\ written[R].src = "reg"
              /\ Stored(R) = Some(to_value(Register(last.result.stdout, last.result.stderr,
                                                    last.result.exit_status)))

\* The last command of a task with shell, command and register has run without
\* the shell, after the shell command, and the register holds its result.
C26_Witness ==
    /\ last.step = "exec"
    /\ ~last.use_shell
    /\ last.result.kind = "ok" /\ last.result.exit_status = 0
    /\ IsSome(tasks[last.task].shell)
    /\ IsSome(tasks[last.task].command)
    /\ IsSome(tasks[last.task].register)
    /\ Count(Pass(trace), "shell") = 1
    /\ Count(Pass(trace), "command") = 1
    /\ Stored(Unwrap(tasks[last.task].register)) =
         Some(to_value(Register(last.result.stdout, last.result.stderr, 0)))

\* The text a source of the given form renders to.
RenderedText(form, j) == IF form = "word" THEN j \o <<" ", "from_json">> ELSE j

\* C27: the value of a vars entry is the parsed JSON value exactly when the
\* text of its source contains from_json: a source without it is stored as the
\* string of its rendered text, JSON or not; a source with it is stored as the
\* value its rendered text parses to, and when that text is not JSON the run
\* ends and the key is not bound.
C27_FromJsonBySource ==
    (input # None /\ Unwrap(input).fn = "replace_placeholders_vars" /\ output # None) =>
        LET form == Unwrap(input).form
            text == RenderedText(form, Unwrap(input).json)
            out == Unwrap(output)
        IN  IF form = "plain"
            THEN ~out.exited /\ out.context = ("y" :> Str(text))
            ELSE IF from_str(text).ok
            THEN ~out.exited /\ out.context = ("y" :> from_str(text).v)
            ELSE out.exited /\ out.context = EmptyMap

\* The source 1, without from_json, has been stored as the string "1"; the
\* number 1 is what the same text is stored as through the filter.
C27_Witness ==
    /\ input = Some([fn |-> "replace_placeholders_vars", form |-> "plain", json |-> <<"1">>])
    /\ output # None
    /\ Unwrap(output).context = ("y" :> Str(<<"1">>))
    /\ from_str(<<"1">>) = [ok |-> TRUE, v |-> Num(1)]

\* C28: every command split_commands returns has a character that is not
\* whitespace, and the execution of a command without the shell returns a
\* result or an error to its caller: it never ends in a panic.
C28_NoWordlessCommand ==
    (input # None /\ Unwrap(input).fn = "split_commands" /\ output # None) =>
        /\ \A i \in 1..Len(Unwrap(output).commands) :
               \E j \in 1..Len(Unwrap(output).commands[i]) :
                   ~IsWhitespace(Unwrap(output).commands[i][j])
        /\ Unwrap(output).result # None => Unwrap(Unwrap(output).result).kind # "panic"

====
